---- MODULE Spec2Model ----
(***************************************************************************)
(* Model of the TesseractFlow experiment lifecycle engine:                *)
(*   - ExperimentRun (core/config.py): the copy-on-write run aggregate    *)
(*     with its mutators mark_running, mark_failed, mark_completed and    *)
(*     record_result, and the validator _validate_state;                  *)
(*   - UtilityFunction (optimization/utility.py);                         *)
(*   - ExperimentExecutor.run (experiments/executor.py).                  *)
(*                                                                         *)
(* Numbers.  Python floats are modelled by exact rationals <<num, den>>   *)
(* in lowest terms with den > 0.  A quality score is kept as the integer  *)
(* q standing for q / QDen, so that it ranges over [0, 1].                *)
(* Optional values are sequences: <<>> is None, <<v>> is the value v.     *)
(* Strings are sequences of one-character tokens, " " being whitespace.   *)
(***************************************************************************)
EXTENDS Integers, Sequences, FiniteSets, TLC

\* ------------------------------------------------------------------ bounds
\* PlanRows stands for the 8 rows of the L8 plan (taguchi.py), scaled down;
\* the plan of a run holds PlanRows * DefaultReplications configurations.
PlanRows == 2
DefaultReplications == 1
QDen == 2
MaxCost == 1
MaxLatency == 1
MaxTime == 2
\* RubricEvaluator(max_retries=3)
DefaultMaxRetries == 3

None == <<>>
Some(v) == <<v>>

\* ------------------------------------------------------- exact arithmetic
Abs(x) == IF x < 0 THEN -x ELSE x

RECURSIVE GCD(_, _)
GCD(a, b) == IF b = 0 THEN a ELSE GCD(b, a % b)

Frac(n, d) ==
    LET g == GCD(Abs(n), Abs(d))
        s == IF d < 0 THEN -1 ELSE 1
    IN  <<(s * n) \div g, (s * d) \div g>>

FracSub(a, b) == Frac(a[1] * b[2] - b[1] * a[2], a[2] * b[2])
FracScale(k, a) == Frac(k * a[1], a[2])
FracLeq(a, b) == a[1] * b[2] <= b[1] * a[2]
FracAdd(a, b) == Frac(a[1] * b[2] + b[1] * a[2], a[2] * b[2])
FracMul(a, b) == Frac(a[1] * b[1], a[2] * b[2])
\* a / b for b # 0
FracDiv(a, b) == Frac(a[1] * b[2], a[2] * b[1])
FracAbs(a) == <<Abs(a[1]), a[2]>>

\* sum(...) of a sequence of rationals
RECURSIVE FracSum(_)
FracSum(s) == IF s = <<>> THEN Frac(0, 1) ELSE FracAdd(s[1], FracSum(Tail(s)))

RECURSIVE SeqMin(_)
SeqMin(s) ==
    IF Len(s) = 1 THEN s[1]
    ELSE LET m == SeqMin(Tail(s)) IN IF s[1] <= m THEN s[1] ELSE m

RECURSIVE SeqMax(_)
SeqMax(s) ==
    IF Len(s) = 1 THEN s[1]
    ELSE LET m == SeqMax(Tail(s)) IN IF s[1] >= m THEN s[1] ELSE m

\* min(...) and max(...) of a non-empty set of numbers.
SetMin(S) == CHOOSE x \in S : \A y \in S : x <= y
SetMax(S) == CHOOSE x \in S : \A y \in S : x >= y

\* ---------------------------------------------------------- str.strip()
RECURSIVE lstrip(_)
lstrip(s) == IF s # <<>> /\ Head(s) = " " THEN lstrip(Tail(s)) ELSE s

RECURSIVE rstrip(_)
rstrip(s) ==
    IF s # <<>> /\ s[Len(s)] = " " THEN rstrip(SubSeq(s, 1, Len(s) - 1)) ELSE s

strip(s) == rstrip(lstrip(s))

\* ------------------------------------------- optimization/utility.py
\* Mutant of normalize_metrics: the values are divided by the maximum.
normalize_metrics_scaled_by_max(values) ==
    IF values = <<>> THEN [normalized |-> <<>>, stats |-> [min |-> 0, max |-> 0]]
    ELSE LET minimum == SeqMin(values)
             maximum == SeqMax(values)
         IN  IF maximum = minimum
             THEN [normalized |-> [i \in 1..Len(values) |-> Frac(0, 1)],
                   stats |-> [min |-> minimum, max |-> maximum]]
             ELSE [normalized |-> [i \in 1..Len(values) |-> Frac(values[i], maximum)],
                   stats |-> [min |-> minimum, max |-> maximum]]

\* UtilityFunction.normalize_metrics: min-max scaling, all zeros when the
\* values are equal, the {min, max} statistics in both cases.
normalize_metrics(values) ==
    IF values = <<>> THEN [normalized |-> <<>>, stats |-> [min |-> 0, max |-> 0]]
    ELSE LET minimum == SeqMin(values)
             maximum == SeqMax(values)
             scale == maximum - minimum
         IN  IF maximum = minimum
             THEN [normalized |-> [i \in 1..Len(values) |-> Frac(0, 1)],
                   stats |-> [min |-> minimum, max |-> maximum]]
             ELSE [normalized |-> [i \in 1..Len(values) |-> Frac(values[i] - minimum, scale)],
                   stats |-> [min |-> minimum, max |-> maximum]]

\* UtilityFunction.normalize_metrics(values, method): [raised, normalized,
\* stats]; raised is TRUE for the ValueError of an unsupported method.
normalize_metrics_by(values, method) ==
    IF method # "min-max"
    THEN [raised |-> TRUE, normalized |-> <<>>, stats |-> <<>>]
    ELSE [raised |-> FALSE,
          normalized |-> normalize_metrics(values).normalized,
          stats |-> normalize_metrics(values).stats]

\* UtilityFunction.compute: w.quality*quality - w.cost*cost - w.time*latency
\* (quality, cost and latency are rationals).
compute(weights, quality, cost, latency) ==
    FracSub(FracSub(FracScale(weights.quality, quality), FracScale(weights.cost, cost)),
            FracScale(weights.time, latency))

\* QualityScore.overall_score of a result, as a rational in [0, 1].
overall_score(result) == Frac(result.quality, QDen)

\* TestResult.with_utility
with_utility(result, utility) == [result EXCEPT !.utility = utility]

\* ------------------------------------------------- core/config.py: data
Statuses == {"PENDING", "RUNNING", "COMPLETED", "FAILED"}

\* ExperimentConfig, reduced to what the run reads: the utility weights, and
\* one variable level value (of type Any: a tuple or a list of one number).
Weights == {[quality |-> 1, cost |-> 1, time |-> 1],
            [quality |-> 1, cost |-> 2, time |-> 0]}
Levels == {<<"tuple", 1>>, <<"list", 1>>}
Configs == [utility_weights : Weights, level : Levels]

\* ExperimentConfig.model_dump(mode="json"): a tuple is dumped as a list.
model_dump_json(config) ==
    [utility_weights |-> config.utility_weights, level |-> <<"list", config.level[2]>>]

\* Mutant of generate_test_configs: the configurations come in decreasing
\* test-number order.
generate_test_configs_descending(config, replications) ==
    [i \in 1..(PlanRows * replications) |-> PlanRows * replications + 1 - i]

\* generate_test_configs: the planned configurations, numbered 1.. in order
\* (a configuration is kept as its test number).
generate_test_configs(config, replications) ==
    [i \in 1..(PlanRows * replications) |-> i]

\* The test numbers a caller may put on a TestResult (test_number >= 1): the
\* planned ones and one that is not planned.
TestNumbers == 1..(PlanRows * DefaultReplications + 1)
Qualities == {0, 1, QDen}
\* The (cost, latency) pairs of a result.
Metrics == {<<0, MaxLatency>>, <<MaxCost, 0>>}
Times == 1..MaxTime

\* TestResult(...) as constructed by a caller: utility defaults to 0.0.
TestResult(n, q, c, l) ==
    [test_number |-> n, quality |-> q, cost |-> c, latency |-> l, utility |-> Frac(0, 1)]
TestResults ==
    {TestResult(n, q, m[1], m[2]) : n \in TestNumbers, q \in Qualities, m \in Metrics}

\* Error messages: empty, blank, plain, padded with whitespace, and with
\* whitespace inside.
Messages == {<<>>, <<" ">>, <<"x">>, <<" ", "x", " ">>, <<"x", " ", "y">>}

TestNumbersOf(results) == {results[i].test_number : i \in 1..Len(results)}

\* min(test_configurations, key=test_number).test_number
FirstConfigNumber(test_configurations) == SeqMin(test_configurations)

\* ExperimentRun(config=..., test_configurations=...): the defaults of the
\* fields, and the baseline number the validator derives.
NewRun(config, test_configurations) ==
    [config |-> config,
     test_configurations |-> test_configurations,
     results |-> <<>>,
     status |-> "PENDING",
     started_at |-> None,
     completed_at |-> None,
     error |-> None,
     metadata |-> [normalization |-> None],
     baseline_test_number |-> FirstConfigNumber(test_configurations),
     baseline_result |-> None,
     baseline_quality |-> None,
     quality_improvement_pct |-> None]

\* ExperimentRun._validate_state: TRUE when the validator accepts the run.
\* (The test numbers of a plan are unique by construction of the plan.)
validate_state(run) ==
    LET num_configs == Len(run.test_configurations)
        num_results == Len(run.results)
    IN  /\ ~(num_configs < PlanRows \/ num_configs % PlanRows # 0)
        /\ Cardinality({run.test_configurations[i] : i \in 1..num_configs}) = num_configs
        /\ ~(num_results > num_configs)
        /\ run.status = "PENDING" =>
              /\ run.results = <<>>
              /\ run.started_at = None
              /\ run.completed_at = None
              /\ run.error = None
        /\ run.status = "RUNNING" =>
              /\ num_results <= num_configs
              /\ run.completed_at = None
              /\ run.error = None
              /\ run.started_at # None
        /\ run.status = "COMPLETED" =>
              /\ num_results = num_configs
              /\ run.completed_at # None
              /\ run.error = None
              /\ run.started_at # None
        /\ run.status = "FAILED" =>
              /\ run.error # None
              /\ run.started_at # None

\* ------------------------------------------- core/config.py: mutators
\* A mutator returns [raised, run, receiver]: raised is TRUE when the call
\* raises ValueError, and run is then the receiver itself (nothing is
\* returned); receiver is the object the method was called on, as it is after
\* the call.  No mutator assigns to a field of self or changes a list or a
\* dict of self in place: model_copy(update=...) builds the run it returns.
Raise(self) == [raised |-> TRUE, run |-> self, receiver |-> self]
Return(self, new) == [raised |-> FALSE, run |-> new, receiver |-> self]

\* Mutant of mark_running: a COMPLETED run may be started again.
mark_running_from_completed(self, started_at, now) ==
    IF self.status \notin {"PENDING", "FAILED", "COMPLETED"} THEN Raise(self)
    ELSE LET timestamp == IF started_at # None THEN started_at[1] ELSE now
         IN  Return(self, [self EXCEPT !.status = "RUNNING",
                                 !.started_at = Some(timestamp),
                                 !.error = None])

\* ExperimentRun.mark_running(started_at=...); now is datetime.now().
mark_running(self, started_at, now) ==
    IF self.status \notin {"PENDING", "FAILED"} THEN Raise(self)
    ELSE LET timestamp == IF started_at # None THEN started_at[1] ELSE now
         IN  Return(self, [self EXCEPT !.status = "RUNNING",
                                 !.started_at = Some(timestamp),
                                 !.error = None])

\* Mutant of mark_failed: the message is stored as it was passed.
mark_failed_stores_untrimmed(self, error) ==
    IF self.status # "RUNNING" THEN Raise(self)
    ELSE LET stripped == strip(error)
         IN  IF stripped = <<>> THEN Raise(self)
             ELSE Return(self, [self EXCEPT !.status = "FAILED", !.error = Some(error)])

\* Mutant of mark_failed: the completion timestamp is set on failure.
mark_failed_sets_completed_at(self, error) ==
    IF self.status # "RUNNING" THEN Raise(self)
    ELSE LET stripped == strip(error)
         IN  IF stripped = <<>> THEN Raise(self)
             ELSE Return(self, [self EXCEPT !.status = "FAILED", !.error = Some(stripped),
                                      !.completed_at = Some(1)])

\* ExperimentRun.mark_failed(error)
mark_failed(self, error) ==
    IF self.status # "RUNNING" THEN Raise(self)
    ELSE LET stripped == strip(error)
         IN  IF stripped = <<>> THEN Raise(self)
             ELSE Return(self, [self EXCEPT !.status = "FAILED", !.error = Some(stripped)])

\* The results in the order of recording, the newest first, instead of sorted.
SortByTestNumber_newest_first(results) ==
    [i \in 1..Len(results) |-> results[Len(results) - i + 1]]

\* sorted(results, key=lambda item: item.test_number): a stable insertion sort.
RECURSIVE InsertByTestNumber(_, _)
InsertByTestNumber(sorted, item) ==
    IF sorted = <<>> THEN <<item>>
    ELSE IF item.test_number < Head(sorted).test_number THEN <<item>> \o sorted
    ELSE <<Head(sorted)>> \o InsertByTestNumber(Tail(sorted), item)

RECURSIVE SortByTestNumber(_)
SortByTestNumber(results) ==
    IF results = <<>> THEN <<>>
    ELSE InsertByTestNumber(SortByTestNumber(SubSeq(results, 1, Len(results) - 1)),
                            results[Len(results)])

\* Mutant of _recalculate_utilities: the results are not sorted.
recalculate_utilities_unsorted(self, results) ==
    LET costs == [i \in 1..Len(results) |-> results[i].cost]
        latencies == [i \in 1..Len(results) |-> results[i].latency]
        ncost == normalize_metrics(costs)
        nlatency == normalize_metrics(latencies)
    IN  [results |->
            [i \in 1..Len(results) |->
                with_utility(results[i],
                    compute(self.config.utility_weights,
                            overall_score(results[i]),
                            ncost.normalized[i],
                            nlatency.normalized[i]))],
         metadata |-> [self.metadata EXCEPT !.normalization =
                          Some([cost |-> ncost.stats, latency |-> nlatency.stats])]]

\* Mutant of _recalculate_utilities: only the utility of the new (last
\* appended) result is computed; the earlier results keep the utility they had.
recalculate_utilities_new_only(self, results) ==
    LET results_list == SortByTestNumber(results)
        new_number == results[Len(results)].test_number
        costs == [i \in 1..Len(results_list) |-> results_list[i].cost]
        latencies == [i \in 1..Len(results_list) |-> results_list[i].latency]
        ncost == normalize_metrics(costs)
        nlatency == normalize_metrics(latencies)
    IN  [results |->
            [i \in 1..Len(results_list) |->
                IF results_list[i].test_number # new_number THEN results_list[i]
                ELSE with_utility(results_list[i],
                         compute(self.config.utility_weights,
                                 overall_score(results_list[i]),
                                 ncost.normalized[i],
                                 nlatency.normalized[i]))],
         metadata |-> self.metadata]

\* ExperimentRun._recalculate_utilities: sort by test number, normalise cost
\* and latency over all the results, recompute every utility.
recalculate_utilities(self, results) ==
    LET results_list == SortByTestNumber(results)
    IN  IF results_list = <<>> THEN [results |-> results_list, metadata |-> self.metadata]
        ELSE LET costs == [i \in 1..Len(results_list) |-> results_list[i].cost]
                 latencies == [i \in 1..Len(results_list) |-> results_list[i].latency]
                 ncost == normalize_metrics(costs)
                 nlatency == normalize_metrics(latencies)
                 updated_results ==
                     [i \in 1..Len(results_list) |->
                         with_utility(results_list[i],
                             compute(self.config.utility_weights,
                                     overall_score(results_list[i]),
                                     ncost.normalized[i],
                                     nlatency.normalized[i]))]
             IN  [results |-> updated_results,
                  metadata |-> [self.metadata EXCEPT !.normalization =
                                   Some([cost |-> ncost.stats, latency |-> nlatency.stats])]]

\* max(result.quality_score.overall_score for result in results)
RECURSIVE BestQuality(_)
BestQuality(results) ==
    IF Len(results) = 1 THEN overall_score(results[1])
    ELSE LET m == BestQuality(Tail(results))
         IN  IF FracLeq(m, overall_score(results[1])) THEN overall_score(results[1]) ELSE m

\* Mutant of _calculate_improvement: the quality of the last result stands
\* for the best quality.
calculate_improvement_of_last(results, baseline_quality) ==
    IF baseline_quality = None \/ baseline_quality[1][1] <= 0 THEN None
    ELSE IF results = <<>> THEN None
    ELSE LET base == baseline_quality[1]
             diff == FracSub(overall_score(results[Len(results)]), base)
         IN  Some(Frac(diff[1] * base[2] * 100, diff[2] * base[1]))

\* The improvement computed from the lowest quality among the results.
calculate_improvement_of_lowest(results, baseline_quality) ==
    IF baseline_quality = None \/ baseline_quality[1][1] <= 0 THEN None
    ELSE IF results = <<>> THEN None
    ELSE LET base == baseline_quality[1]
             scores == {overall_score(results[i]) : i \in 1..Len(results)}
             lowest == CHOOSE x \in scores : \A y \in scores : FracLeq(x, y)
             diff == FracSub(lowest, base)
         IN  Some(Frac(diff[1] * base[2] * 100, diff[2] * base[1]))

\* ExperimentRun._calculate_improvement
calculate_improvement(results, baseline_quality) ==
    IF baseline_quality = None \/ baseline_quality[1][1] <= 0 THEN None
    ELSE IF results = <<>> THEN None
    ELSE LET base == baseline_quality[1]
             diff == FracSub(BestQuality(results), base)
         IN  Some(Frac(diff[1] * base[2] * 100, diff[2] * base[1]))

\* experiments/analysis.py: calculate_quality_improvement
calculate_quality_improvement(baseline_quality, optimal_quality) ==
    IF baseline_quality = None \/ optimal_quality = None THEN None
    ELSE IF baseline_quality[1][1] <= 0 THEN None
    ELSE LET base == baseline_quality[1]
             diff == FracSub(optimal_quality[1], base)
         IN  Some(Frac(diff[1] * base[2] * 100, diff[2] * base[1]))

\* next((item for item in results if item.test_number == number), None)
RECURSIVE FirstWithNumber(_, _)
FirstWithNumber(results, number) ==
    IF results = <<>> THEN None
    ELSE IF Head(results).test_number = number THEN Some(Head(results))
    ELSE FirstWithNumber(Tail(results), number)

\* ExperimentRun.mark_completed(completed_at=...); now is datetime.now().
mark_completed(self, completed_at, now) ==
    IF self.status # "RUNNING" THEN Raise(self)
    ELSE IF Len(self.results) # Len(self.test_configurations) THEN Raise(self)
    ELSE LET timestamp == IF completed_at # None THEN completed_at[1] ELSE now
             baseline_result ==
                 IF self.baseline_result = None
                 THEN FirstWithNumber(self.results, self.baseline_test_number)
                 ELSE self.baseline_result
             baseline_quality ==
                 IF baseline_result # None THEN Some(overall_score(baseline_result[1]))
                 ELSE self.baseline_quality
             improvement == calculate_improvement(self.results, baseline_quality)
         IN  Return(self, [self EXCEPT !.status = "COMPLETED",
                                 !.completed_at = Some(timestamp),
                                 !.baseline_result = baseline_result,
                                 !.baseline_quality = baseline_quality,
                                 !.quality_improvement_pct = improvement])

\* Mutant of record_result: a duplicate test number is not rejected.
record_result_accepts_duplicate(self, result) ==
    IF self.status # "RUNNING" THEN Raise(self)
    ELSE IF Len(self.results) >= Len(self.test_configurations) THEN Raise(self)
    ELSE LET recalculated == recalculate_utilities(self, Append(self.results, result))
         IN  Return(self, [self EXCEPT !.results = recalculated.results,
                                 !.metadata = recalculated.metadata])

\* Mutant of record_result: the result is appended to self.results in place
\* before the copy is made.
record_result_in_place(self, result) ==
    IF self.status # "RUNNING" THEN Raise(self)
    ELSE IF \E i \in 1..Len(self.results) : self.results[i].test_number = result.test_number
    THEN Raise(self)
    ELSE IF Len(self.results) >= Len(self.test_configurations) THEN Raise(self)
    ELSE LET appended == [self EXCEPT !.results = Append(self.results, result)]
             recalculated == recalculate_utilities(self, appended.results)
         IN  [raised |-> FALSE,
              run |-> [appended EXCEPT !.results = recalculated.results,
                                       !.metadata = recalculated.metadata],
              receiver |-> appended]

\* ExperimentRun.record_result(result)
record_result(self, result) ==
    IF self.status # "RUNNING" THEN Raise(self)
    ELSE IF \E i \in 1..Len(self.results) : self.results[i].test_number = result.test_number
    THEN Raise(self)
    ELSE IF Len(self.results) >= Len(self.test_configurations) THEN Raise(self)
    ELSE LET updated_results == Append(self.results, result)
             recalculated == recalculate_utilities(self, updated_results)
             baseline_result ==
                 IF self.baseline_result = None \/ result.test_number = self.baseline_test_number
                 THEN FirstWithNumber(recalculated.results, self.baseline_test_number)
                 ELSE self.baseline_result
             baseline_quality ==
                 IF baseline_result # None THEN Some(overall_score(baseline_result[1]))
                 ELSE self.baseline_quality
             improvement == calculate_improvement(recalculated.results, baseline_quality)
         IN  Return(self, [self EXCEPT !.results = recalculated.results,
                                 !.metadata = recalculated.metadata,
                                 !.baseline_result = baseline_result,
                                 !.baseline_quality = baseline_quality,
                                 !.quality_improvement_pct = improvement])

\* ------------------------------------- experiments/executor.py: helpers
\* An exception is its class name and its message, str(exc).
Exception(type, message) == [type |-> type, message |-> message]

\* max(0.0, value)
NonNegative(value) == IF value < 0 THEN 0 ELSE value

\* The message of the ValueError record_result raises.
record_result_error(self, result) ==
    IF self.status # "RUNNING"
    THEN <<"Results can only be recorded while experiment is RUNNING.">>
    ELSE IF result.test_number \in TestNumbersOf(self.results)
    THEN <<"Result for this test number has already been recorded.">>
    ELSE <<"All test results have already been recorded.">>

\* The message of the ValueError mark_completed raises.
mark_completed_error(self) ==
    IF self.status # "RUNNING"
    THEN <<"Experiment must be RUNNING before completion.">>
    ELSE <<"Cannot complete experiment until all results are recorded.">>

ResumeError ==
    Exception("ExperimentError",
              <<"Cannot resume experiment: configuration differs from saved state.">>)
ExecutionFailed == Exception("ExperimentError", <<"Experiment execution failed.">>)

\* The overall scores the evaluator returns.
EvaluatedQualities == {1, QDen}
\* The messages of the exceptions the collaborators raise.
ExcMessages == {<<>>, <<" ", "x", " ">>}
\* The exception classes workflow_service.run raises.
WorkflowErrorTypes == {"WorkflowExecutionError", "ValueError", "KeyError", "RuntimeError"}

\* run_single_test's except clauses around workflow_service.run: every
\* exception becomes an ExperimentError naming the test (no __cause__ set).
wrap_workflow_error(exc_, test_number) ==
    LET n == ToString(test_number)
    IN  Exception("ExperimentError",
            CASE exc_.type = "WorkflowExecutionError" ->
                     <<"Workflow execution failed for test #", n>>
                         \o (IF exc_.message # <<>> THEN <<":", " ">> \o exc_.message ELSE <<>>)
              [] exc_.type = "ValueError" ->
                     <<"Configuration error in test #", n, ":", " ">> \o exc_.message
              [] exc_.type = "KeyError" ->
                     <<"Missing configuration in test #", n, ":", " ", "'">>
                         \o exc_.message \o <<"'">>
              [] OTHER ->
                     <<"Unexpected error in test #", n, ":", " ", exc_.type, ":", " ">>
                         \o exc_.message)

\* Mutant of save_run: the baseline fields are left out of the document.
save_run_without_baseline(run) ==
    [run EXCEPT !.config = model_dump_json(run.config),
                !.baseline_result = None,
                !.baseline_quality = None]

\* ExperimentExecutor.save_run: run.model_dump_json(exclude_none=True), the
\* document written to the file; the nested config is dumped in JSON mode.
save_run(run) == [run EXCEPT !.config = model_dump_json(run.config)]

\* ExperimentExecutor.load_run: ExperimentRun.model_validate(json.loads(..)),
\* with the validator's baseline fix-ups.  Defined when the validator accepts.
load_run(document) ==
    LET first == FirstConfigNumber(document.test_configurations)
        stale == document.baseline_result # None
                   /\ document.baseline_result[1].test_number # first
    IN  [document EXCEPT !.baseline_test_number = first,
                         !.baseline_result = IF stale THEN None ELSE @,
                         !.baseline_quality = IF stale THEN None ELSE @]

\* Mutant of ensure_running_state: a FAILED run is resumed as it is.
ensure_running_state_keeps_failed(run_, now) ==
    IF run_.status = "COMPLETED" THEN run_
    ELSE IF run_.status = "RUNNING" THEN run_
    ELSE IF run_.status = "FAILED" THEN run_
    ELSE mark_running(run_, run_.started_at, now).run

\* ExperimentExecutor._ensure_running_state
ensure_running_state(run_, now) ==
    IF run_.status = "COMPLETED" THEN run_
    ELSE IF run_.status = "RUNNING" THEN run_
    ELSE mark_running(run_, run_.started_at, now).run

\* A resume check that accepts every configuration.
validate_resume_config_accepts_drift(config_, run_) == FALSE

\* ExperimentExecutor._validate_resume_config: TRUE when it raises.
validate_resume_config_raises(config_, run_) ==
    model_dump_json(config_) # model_dump_json(run_.config)

\* ------------------------------------------- optimization/pareto.py
\* _TOLERANCE; the axis values of the model count in units of it.
TOLERANCE == 1

\* ParetoPoint(config=result.config, quality=..., cost=..., latency=...,
\* utility=...): is_optimal and dominated_by take their defaults.
ParetoPoint(result) ==
    [test_number |-> result.test_number,
     quality |-> result.quality,
     cost |-> result.cost,
     latency |-> result.latency,
     utility |-> result.utility,
     is_optimal |-> FALSE,
     dominated_by |-> None]

\* _axis_value
axis_value(point, axis) ==
    CASE axis = "cost" -> point.cost
      [] axis = "latency" -> point.latency
      [] axis = "quality" -> point.quality
      [] axis = "utility" -> point.utility

\* The sort key (x, -y) of a point, compared as Python compares tuples.
KeyLess(a, b, axis_x, axis_y) ==
    \/ axis_value(a, axis_x) < axis_value(b, axis_x)
    \/ /\ axis_value(a, axis_x) = axis_value(b, axis_x)
       /\ -axis_value(a, axis_y) < -axis_value(b, axis_y)

\* sorted(raw_points, key=...): a stable sort.
RECURSIVE InsertByKey(_, _, _, _)
InsertByKey(sorted, item, axis_x, axis_y) ==
    IF sorted = <<>> THEN <<item>>
    ELSE IF KeyLess(item, Head(sorted), axis_x, axis_y) THEN <<item>> \o sorted
    ELSE <<Head(sorted)>> \o InsertByKey(Tail(sorted), item, axis_x, axis_y)

RECURSIVE SortByKey(_, _, _)
SortByKey(points, axis_x, axis_y) ==
    IF points = <<>> THEN <<>>
    ELSE InsertByKey(SortByKey(SubSeq(points, 1, Len(points) - 1), axis_x, axis_y),
                     points[Len(points)], axis_x, axis_y)

\* The sweep over sorted_points: a point is optimal when its y exceeds the
\* best y seen so far by more than the tolerance (best_y is None for -inf).
RECURSIVE sweep(_, _, _, _)
sweep(sorted_points, axis_y, best_y, optimal_numbers) ==
    IF sorted_points = <<>> THEN optimal_numbers
    ELSE LET point == Head(sorted_points)
             value_y == axis_value(point, axis_y)
         IN  IF best_y = None \/ value_y > best_y[1] + TOLERANCE
             THEN sweep(Tail(sorted_points), axis_y, Some(value_y),
                        Append(optimal_numbers, point.test_number))
             ELSE sweep(Tail(sorted_points), axis_y, best_y, optimal_numbers)

\* The test of _compute_dominance: candidate dominates point.
dominates(candidate, point, axis_x, axis_y) ==
    /\ axis_value(candidate, axis_x) <= axis_value(point, axis_x) + TOLERANCE
    /\ axis_value(candidate, axis_y) >= axis_value(point, axis_y) - TOLERANCE
    /\ \/ axis_value(candidate, axis_x) < axis_value(point, axis_x) - TOLERANCE
       \/ axis_value(candidate, axis_y) > axis_value(point, axis_y) + TOLERANCE

\* _compute_dominance: for each point the first point, in the order of
\* points, that dominates it, or None.
compute_dominance(points, axis_x, axis_y) ==
    [n \in {points[i].test_number : i \in 1..Len(points)} |->
        LET candidates ==
                {j \in 1..Len(points) :
                    /\ points[j].test_number # n
                    /\ \E i \in 1..Len(points) :
                          /\ points[i].test_number = n
                          /\ dominates(points[j], points[i], axis_x, axis_y)}
        IN  IF candidates = {} THEN None
            ELSE Some(points[SetMin(candidates)].test_number)]

\* ParetoFrontier.compute for a non-empty results and valid axis names.
pareto_compute(results, x_axis, y_axis) ==
    LET raw_points == [i \in 1..Len(results) |-> ParetoPoint(results[i])]
        sorted_points == SortByKey(raw_points, x_axis, y_axis)
        optimal_numbers == sweep(sorted_points, y_axis, None, <<>>)
        dominance_map == compute_dominance(sorted_points, x_axis, y_axis)
        updated_points ==
            [i \in 1..Len(raw_points) |->
                [raw_points[i] EXCEPT
                    !.is_optimal = \E k \in 1..Len(optimal_numbers) :
                                      optimal_numbers[k] = raw_points[i].test_number,
                    !.dominated_by = dominance_map[raw_points[i].test_number]]]
    IN  [points |-> updated_points,
         optimal_points |-> SelectSeq(updated_points, LAMBDA point : point.is_optimal),
         x_axis |-> x_axis,
         y_axis |-> y_axis]

\* max(candidates, key=...): the first candidate with the largest key.
first_max_by_axis(candidates, axis) ==
    LET largest == SetMax({axis_value(candidates[i], axis) : i \in 1..Len(candidates)})
        first == SetMin({i \in 1..Len(candidates) : axis_value(candidates[i], axis) = largest})
    IN  candidates[first]

\* Mutant of best_within_budget: the candidates are taken from all the points.
best_within_budget_of_all_points(frontier, budget) ==
    LET within(point) == axis_value(point, frontier.x_axis) <= budget + TOLERANCE
        candidates == SelectSeq(frontier.points, within)
    IN  IF candidates = <<>> THEN None
        ELSE Some(first_max_by_axis(candidates, frontier.y_axis))

\* ParetoFrontier.best_within_budget: None, or Some(point).
best_within_budget(frontier, budget) ==
    LET within(point) == axis_value(point, frontier.x_axis) <= budget + TOLERANCE
        candidates == SelectSeq(frontier.optimal_points, within)
    IN  IF candidates = <<>> THEN None
        ELSE Some(first_max_by_axis(candidates, frontier.y_axis))

\* ------------------------------------- core/config.py: ExperimentConfig
\* Mutant of validate_variables: duplicate names are accepted.
validate_variables_without_unique_names(variables) ==
    LET count == Len(variables)
    IN  ~(count < 4 \/ count > 7)

\* ExperimentConfig._validate_variables: TRUE when the validator accepts.
validate_variables(variables) ==
    LET count == Len(variables)
        names == [j \in 1..count |-> variables[j].name]
    IN  /\ ~(count < 4 \/ count > 7)
        /\ Cardinality({names[j] : j \in 1..count}) = count

\* ExperimentConfig(name=..., workflow=..., variables=...) with a valid name
\* and workflow: [raised, config]; raised is TRUE for the ValidationError, and
\* then there is no config.
ExperimentConfig(variables) ==
    IF ~validate_variables(variables) THEN [raised |-> TRUE, config |-> None]
    ELSE [raised |-> FALSE, config |-> Some([variables |-> variables])]

\* ------------------------------------------- experiments/taguchi.py
\* Mutant of L8_ARRAY: the last cell of the second row is 1.
L8_ARRAY_with_changed_cell ==
    << <<1, 1, 1, 1, 1, 1, 1>>,
       <<1, 1, 1, 2, 2, 2, 1>>,
       <<1, 2, 2, 1, 1, 2, 2>>,
       <<1, 2, 2, 2, 2, 1, 1>>,
       <<2, 1, 2, 1, 2, 1, 2>>,
       <<2, 1, 2, 2, 1, 2, 1>>,
       <<2, 2, 1, 1, 2, 2, 1>>,
       <<2, 2, 1, 2, 1, 1, 2>> >>

\* L8_ARRAY: the standard Taguchi L8 orthogonal array, 8 rows of 7 cells.
L8_ARRAY ==
    << <<1, 1, 1, 1, 1, 1, 1>>,
       <<1, 1, 1, 2, 2, 2, 2>>,
       <<1, 2, 2, 1, 1, 2, 2>>,
       <<1, 2, 2, 2, 2, 1, 1>>,
       <<2, 1, 2, 1, 2, 1, 2>>,
       <<2, 1, 2, 2, 1, 2, 1>>,
       <<2, 2, 1, 1, 2, 2, 1>>,
       <<2, 2, 1, 2, 1, 1, 2>> >>

\* generate_l8_array: [raised, array]; raised is TRUE for the ValueError, else
\* array is L8_ARRAY[:, :num_variables].
generate_l8_array(num_variables) ==
    IF num_variables < 4 \/ num_variables > Len(L8_ARRAY[1])
    THEN [raised |-> TRUE, array |-> <<>>]
    ELSE [raised |-> FALSE,
          array |-> [r \in 1..Len(L8_ARRAY) |-> SubSeq(L8_ARRAY[r], 1, num_variables)]]

\* _build_variable_levels: name -> (level_1, level_2); a later variable of the
\* same name replaces an earlier one.
build_variable_levels(variables) ==
    [name \in {variables[j].name : j \in 1..Len(variables)} |->
        LET last == SetMax({j \in 1..Len(variables) : variables[j].name = name})
        IN  <<variables[last].level_1, variables[last].level_2>>]

\* TestConfiguration._validate_values: TRUE when the validator accepts
\* config_values in the context of variable_levels.
validate_values(config_values, variable_levels) ==
    /\ DOMAIN config_values = DOMAIN variable_levels
    /\ \A name \in DOMAIN config_values :
          config_values[name] \in {variable_levels[name][1], variable_levels[name][2]}

\* The dict comprehension over zip(variables, row): the level of each
\* variable in one row of the array.
row_config_values(variables, row) ==
    [name \in {variables[j].name : j \in 1..Len(variables)} |->
        LET last == SetMax({j \in 1..Len(variables) : variables[j].name = name})
        IN  IF row[last] = 1 THEN variables[last].level_1 ELSE variables[last].level_2]

\* The two loops of generate_test_configs, from replication rep and row r on:
\* test_configs is the list built so far and test_number the next number.
\* The result is [raised, test_configs].
RECURSIVE append_test_configs(_, _, _, _, _, _, _)
append_test_configs(variables, array, replications, rep, r, test_number, test_configs) ==
    IF rep > replications THEN [raised |-> FALSE, test_configs |-> test_configs]
    ELSE IF r > Len(array)
    THEN append_test_configs(variables, array, replications, rep + 1, 1,
                             test_number, test_configs)
    ELSE LET config_values == row_config_values(variables, array[r])
             test_config == [test_number |-> test_number, config_values |-> config_values]
         IN  IF ~validate_values(config_values, build_variable_levels(variables))
             THEN [raised |-> TRUE, test_configs |-> <<>>]
             ELSE append_test_configs(variables, array, replications, rep, r + 1,
                                      test_number + 1, Append(test_configs, test_config))

\* Mutant of generate_test_configs_of: the numbering restarts at 1 in every
\* replication.
generate_test_configs_restarting(variables, replications) ==
    LET generated == generate_l8_array(Len(variables))
        once == append_test_configs(variables, generated.array, 1, 1, 1, 1, <<>>)
    IN  IF generated.raised THEN [raised |-> TRUE, test_configs |-> <<>>]
        ELSE [raised |-> once.raised,
              test_configs |->
                  [k \in 1..(Len(once.test_configs) * replications) |->
                      once.test_configs[((k - 1) % Len(once.test_configs)) + 1]]]

\* generate_test_configs with its configurations in full, for a config with
\* the given variables: [raised, test_configs], each TestConfiguration being
\* [test_number, config_values].  (generate_test_configs above keeps the test
\* numbers only, for a plan of PlanRows rows.)
generate_test_configs_of(variables, replications) ==
    LET generated == generate_l8_array(Len(variables))
    IN  IF generated.raised THEN [raised |-> TRUE, test_configs |-> <<>>]
        ELSE append_test_configs(variables, generated.array, replications, 1, 1, 1, <<>>)

\* ------------------------------------------- experiments/analysis.py
\* Variable(name, level_1, level_2), its two levels told apart by name.
Variable(name) == [name |-> name, level_1 |-> <<name, 1>>, level_2 |-> <<name, 2>>]

\* Mutant of identify_optimal_config: level_2 is selected on a tie.
identify_optimal_config_level_2_on_tie(main_effects, variables) ==
    LET names == DOMAIN main_effects.effects
        known == {variables[i].name : i \in 1..Len(variables)}
        variable_lookup(name) ==
            CHOOSE v \in {variables[i] : i \in 1..Len(variables)} : v.name = name
    IN  IF ~(names \subseteq known) THEN [raised |-> TRUE, optimal |-> <<>>]
        ELSE [raised |-> FALSE,
              optimal |->
                  [name \in names |->
                      IF main_effects.effects[name].avg_level_1
                            > main_effects.effects[name].avg_level_2
                      THEN variable_lookup(name).level_1
                      ELSE variable_lookup(name).level_2]]

\* identify_optimal_config: [raised, optimal]; raised is TRUE when an effect
\* names a variable that is not in variables (ValueError).
identify_optimal_config(main_effects, variables) ==
    LET names == DOMAIN main_effects.effects
        known == {variables[i].name : i \in 1..Len(variables)}
        variable_lookup(name) ==
            CHOOSE v \in {variables[i] : i \in 1..Len(variables)} : v.name = name
    IN  IF ~(names \subseteq known) THEN [raised |-> TRUE, optimal |-> <<>>]
        ELSE [raised |-> FALSE,
              optimal |->
                  [name \in names |->
                      IF main_effects.effects[name].avg_level_1
                            >= main_effects.effects[name].avg_level_2
                      THEN variable_lookup(name).level_1
                      ELSE variable_lookup(name).level_2]]

\* math.isclose(a, b, rel_tol=..., abs_tol=...) on rationals
isclose(a, b, rel_tol, abs_tol) ==
    LET larger == IF FracLeq(FracAbs(a), FracAbs(b)) THEN FracAbs(b) ELSE FracAbs(a)
        relative == FracMul(rel_tol, larger)
        allowed == IF FracLeq(relative, abs_tol) THEN abs_tol ELSE relative
    IN  FracLeq(FracAbs(FracSub(a, b)), allowed)

\* _utilities_for_level: the utilities of the results whose configuration
\* gives variable_name the value level_value, in order.
utilities_for_level(results, variable_name, level_value) ==
    LET matches(result) ==
            /\ variable_name \in DOMAIN result.config_values
            /\ result.config_values[variable_name] = level_value
    IN  SelectSeq(results, matches)

\* mean(...) of the utilities of a non-empty sequence of results
mean_utility(results) ==
    FracDiv(FracSum([i \in 1..Len(results) |-> results[i].utility]),
            Frac(Len(results), 1))

\* The Effect compute builds for one variable, contribution_pct still 0.0.
effect_of(results, variable) ==
    LET level_1_utilities == utilities_for_level(results, variable.name, variable.level_1)
        level_2_utilities == utilities_for_level(results, variable.name, variable.level_2)
        avg_1 == mean_utility(level_1_utilities)
        avg_2 == mean_utility(level_2_utilities)
        effect_size == FracSub(avg_2, avg_1)
    IN  [variable |-> variable.name,
         avg_level_1 |-> avg_1,
         avg_level_2 |-> avg_2,
         effect_size |-> effect_size,
         sum_of_squares |->
             FracMul(FracMul(effect_size, effect_size), Frac(Len(level_1_utilities), 1)),
         contribution_pct |-> Frac(0, 1)]

\* sum(effect.contribution_pct for effect in effects.values())
total_contribution(effects) ==
    LET names == DOMAIN effects
        RECURSIVE total(_)
        total(S) == IF S = {} THEN Frac(0, 1)
                    ELSE LET name == CHOOSE n \in S : TRUE
                         IN  FracAdd(effects[name].contribution_pct, total(S \ {name}))
    IN  total(names)

\* MainEffects._validate_contributions: TRUE when the validator accepts.
validate_contributions(effects, total_ss) ==
    /\ DOMAIN effects # {}
    /\ IF total_ss = Frac(0, 1)
       THEN total_contribution(effects) = Frac(0, 1)
       ELSE isclose(total_contribution(effects), Frac(100, 1), Frac(1, 100), Frac(1, 2))

\* MainEffectsAnalyzer.compute: [raised, main_effects]; raised is TRUE for a
\* ValueError of compute or of the validator of MainEffects.
main_effects_compute(results, variables) ==
    LET indices == 1..Len(variables)
        missing(variable) ==
            \/ utilities_for_level(results, variable.name, variable.level_1) = <<>>
            \/ utilities_for_level(results, variable.name, variable.level_2) = <<>>
        built == [j \in indices |-> effect_of(results, variables[j])]
        total_ss == FracSum([j \in indices |-> built[j].sum_of_squares])
        names == {variables[j].name : j \in indices}
        \* effects[name] = ...: a later variable of the same name replaces an
        \* earlier one
        effect_named(name) == built[SetMax({j \in indices : variables[j].name = name})]
        effects ==
            [name \in names |->
                IF FracLeq(total_ss, Frac(0, 1))
                THEN effect_named(name)
                ELSE [effect_named(name) EXCEPT
                         !.contribution_pct =
                             FracMul(FracDiv(effect_named(name).sum_of_squares, total_ss),
                                     Frac(100, 1))]]
    IN  IF Len(results) # 8 THEN [raised |-> TRUE, main_effects |-> <<>>]
        ELSE IF variables = <<>> THEN [raised |-> TRUE, main_effects |-> <<>>]
        ELSE IF \E j \in indices : missing(variables[j])
        THEN [raised |-> TRUE, main_effects |-> <<>>]
        ELSE IF ~validate_contributions(effects, total_ss)
        THEN [raised |-> TRUE, main_effects |-> <<>>]
        ELSE [raised |-> FALSE,
              main_effects |-> [effects |-> effects, total_ss |-> total_ss]]

\* --------------------------------------------- evaluation/rubric.py
\* build_cache_key: the SHA-256 digest of the prompt, model and temperature,
\* kept as the data it is the digest of (model and temperature are fixed).
build_cache_key(prompt) == <<"sha256", prompt>>

\* The content of an LLM response: two payloads that parse to scores, and a
\* text that is not valid JSON.  A response may also carry no choices.
Contents == {"payload_1", "payload_2", "not_json"}
Responses == Contents \cup {"no_choices"}

\* _extract_response_content: [raised, content]
extract_response_content(response) ==
    IF response = "no_choices" THEN [raised |-> TRUE, content |-> None]
    ELSE [raised |-> FALSE, content |-> Some(response)]

\* _load_json followed by _parse_dimension_scores and QualityScore(...):
\* [raised, score], the score being told by the payload it was built from.
quality_from(content) ==
    IF content = "not_json" THEN [raised |-> TRUE, score |-> None]
    ELSE [raised |-> FALSE, score |-> Some(<<"score", content>>)]

\* The end of evaluate once content is known: the locals with the outcome.
finish_evaluation(evaluation, content) ==
    LET quality == quality_from(content)
    IN  [evaluation EXCEPT
            !.content = Some(content),
            !.outcome = IF quality.raised THEN Some([raised |-> TRUE, error |-> "EvaluationError"])
                        ELSE Some([raised |-> FALSE, score |-> quality.score[1],
                                   cache_hit |-> evaluation.cache_hit,
                                   cache_recorded |-> evaluation.recorded_cache])]

\* The locals of an evaluate call that raised.
raise_evaluation_error(evaluation) ==
    [evaluation EXCEPT !.outcome = Some([raised |-> TRUE, error |-> "EvaluationError"])]

\* Mutant of after_response: the response is never written to the cache.
after_response_without_set(evaluator, evaluation, cache, response) ==
    LET extracted == extract_response_content(response)
        responded == [evaluation EXCEPT !.response = Some(response)]
    IN  IF extracted.raised
        THEN [evaluation |-> raise_evaluation_error(responded), cache |-> cache]
        ELSE [evaluation |-> finish_evaluation(responded, extracted.content[1]),
              cache |-> cache]

\* evaluate from the return of _request_with_retry to its end: the content is
\* extracted, written to the cache when record_cache is in effect, and parsed.
\* The result is [evaluation, cache].
after_response(evaluator, evaluation, cache, response) ==
    LET extracted == extract_response_content(response)
        record == evaluator.cache_configured /\ evaluation.effective_record_cache
        key == evaluation.resolved_cache_key[1]
        responded == [evaluation EXCEPT !.response = Some(response)]
    IN  IF extracted.raised
        THEN [evaluation |-> raise_evaluation_error(responded), cache |-> cache]
        ELSE IF record
        THEN [evaluation |->
                  finish_evaluation([responded EXCEPT !.recorded_cache = TRUE],
                                    extracted.content[1]),
              cache |-> [cache EXCEPT ![key] = extracted.content]]
        ELSE [evaluation |-> finish_evaluation(responded, extracted.content[1]),
              cache |-> cache]

\* Mutant of after_failure: the loop ends one failed attempt later.
after_failure_one_more_attempt(evaluator, evaluation, events) ==
    LET failed == [evaluation EXCEPT !.last_error = Some("exc")]
    IN  IF evaluation.attempt > evaluator.max_retries
        THEN [pc |-> "raised", evaluation |-> raise_evaluation_error(failed),
              events |-> events]
        ELSE [pc |-> "sleeping", evaluation |-> failed,
              events |-> Append(events, "sleep")]

\* The except clause of _request_with_retry: after the last attempt the loop
\* is left and EvaluationError raised, otherwise asyncio.sleep is awaited.
\* The result is [pc, evaluation, events].
after_failure(evaluator, evaluation, events) ==
    LET failed == [evaluation EXCEPT !.last_error = Some("exc")]
    IN  IF evaluation.attempt >= evaluator.max_retries
        THEN [pc |-> "raised", evaluation |-> raise_evaluation_error(failed),
              events |-> events]
        ELSE [pc |-> "sleeping", evaluation |-> failed,
              events |-> Append(events, "sleep")]

\* ----------------------------------------------------------------- state
\* The mutators called directly:
\*   run          the ExperimentRun a caller of the mutators holds
\*   call         the name of the last mutator call that returned
\*   recorded     the TestResults accepted by record_result, as passed in
\*   out_of_order TRUE once a result was recorded below an already recorded
\*                test number
\* ExperimentExecutor.run, one invocation after another on one persist path:
\*   pc               where run() is: "idle" before the first call, "returned"
\*                    or "raised" once a call has ended
\*   config           the config argument
\*   persistence_path None, or Some("path") when persist_path is given
\*   resumed          None when resume_from is None, else Some(the test numbers
\*                    of resume_from.results)
\*   run_state        the local run_state
\*   position         the index of the for loop in test_configurations
\*   pending          the workflow output, then the TestResult, of the test
\*                    in flight
\*   exc              the exception caught by run()'s except clause
\*   failed_in        the part of run() that raised it
\*   raised_exc       the exception run() raised to its caller
\*   produced         the TestResults run_single_test returned since the run
\*                    was created, over all the invocations that resumed it
\*   persisted        the document in the file: None, or Some(document)
\*   workflow_calls   the test numbers workflow_service.run was called for,
\*                    in this invocation, in order
\*   evaluator_calls  likewise for evaluator.evaluate
\*   resolved         TRUE once the workflow resolver was called in this invocation
\*   progress         the calls of progress_callback in this invocation, in
\*                    order: <<completed, total>>
\* The analysis functions, applied to inputs a caller supplies:
\*   fn               the function applied last, "none" before the first call
\*   args             its arguments
\*   value            what it returned
\* RubricEvaluator.evaluate, one call after another on one evaluator:
\*   evaluator        the evaluator as constructed: max_retries, whether a
\*                    cache backend is configured, the default flags
\*   cache            the entries of the cache backend: key -> None or
\*                    Some(content)
\*   evaluate_pc      where evaluate() is: "idle" before the first call,
\*                    "requesting" while litellm.acompletion is awaited,
\*                    "sleeping" while asyncio.sleep is awaited, "returned" or
\*                    "raised" once a call has ended
\*   evaluation       the arguments and locals of the call
\*   events           the LLM requests and sleeps of the call, in order
\*   evaluations      the number of calls of evaluate so far
VARIABLES run, call, recorded, out_of_order,
          pc, config, persistence_path, resumed, run_state, position, pending, exc,
          failed_in, raised_exc, produced,
          persisted, workflow_calls, evaluator_calls, resolved, progress,
          fn, args, value,
          evaluator, cache, evaluate_pc, evaluation, events, evaluations

runVars == <<run, call, recorded, out_of_order>>
execVars == <<pc, config, persistence_path, resumed, run_state, position, pending, exc,
              failed_in, raised_exc, produced,
              persisted, workflow_calls, evaluator_calls, resolved, progress>>
analysisVars == <<fn, args, value>>
evaluatorVars == <<evaluator, cache, evaluate_pc, evaluation, events, evaluations>>
vars == <<runVars, execVars, analysisVars, evaluatorVars>>

\* The configurations a caller builds a run with.
RunConfigs == {c \in Configs : c.level = <<"list", 1>>}
FirstConfig == CHOOSE c \in RunConfigs : TRUE

InitRunVars ==
    /\ call = "new"
    /\ recorded = {}
    /\ out_of_order = FALSE

InitExecVars ==
    /\ pc = "idle"
    /\ config = FirstConfig
    /\ resumed = None
    /\ run_state = NewRun(FirstConfig, generate_test_configs(FirstConfig, DefaultReplications))
    /\ position = 0
    /\ pending = None
    /\ exc = None
    /\ failed_in = ""
    /\ raised_exc = None
    /\ produced = {}
    /\ persisted = None
    /\ workflow_calls = <<>>
    /\ evaluator_calls = <<>>
    /\ resolved = FALSE
    /\ progress = <<>>

InitAnalysisVars ==
    /\ fn = "none"
    /\ args = <<>>
    /\ value = <<>>

\* The cache keys of the calls: an explicit cache_key and the digest of the
\* prompt.
Prompt == "prompt"
CacheKeys == {<<"k">>, build_cache_key(Prompt)}

\* The locals of evaluate before a call.
NoEvaluation ==
    [use_cache |-> None, record_cache |-> None, cache_key |-> None,
     effective_use_cache |-> FALSE, effective_record_cache |-> FALSE,
     resolved_cache_key |-> None, cached |-> None, cache_at_call |-> <<>>,
     cache_hit |-> FALSE, recorded_cache |-> FALSE, content |-> None,
     attempt |-> 0, last_error |-> None, response |-> None, outcome |-> None]

\* RubricEvaluator(cache=..., max_retries=...) with the default flags
\* use_cache=False and record_cache=False.
RubricEvaluator(cache_configured, max_retries) ==
    [cache_configured |-> cache_configured, max_retries |-> max_retries,
     default_use_cache |-> FALSE, default_record_cache |-> FALSE]

InitEvaluatorVars ==
    /\ cache = [key \in CacheKeys |-> None]
    /\ evaluate_pc = "idle"
    /\ evaluation = NoEvaluation
    /\ events = <<>>
    /\ evaluations = 0

\* ------------------------------------------ the mutators, called directly
InitRun ==
    /\ \E c \in RunConfigs :
          run = NewRun(c, generate_test_configs(c, DefaultReplications))
    /\ InitRunVars
    /\ InitExecVars
    /\ InitAnalysisVars
    /\ evaluator = RubricEvaluator(TRUE, DefaultMaxRetries)
    /\ InitEvaluatorVars
    /\ persistence_path = None

\* A call that raises returns nothing: the caller keeps the run it had.
\* run = run.mark_running(started_at=...)
MarkRunning ==
    \E started_at \in {None} \cup {Some(t) : t \in Times}, now \in Times :
        LET out == mark_running(run, started_at, now)
        IN  /\ run' = out.run
            /\ call' = IF out.raised THEN call ELSE "mark_running"
            /\ UNCHANGED <<recorded, out_of_order, execVars, analysisVars, evaluatorVars>>

\* run = run.mark_failed(error)
MarkFailed ==
    \E error \in Messages :
        LET out == mark_failed(run, error)
        IN  /\ run' = out.run
            /\ call' = IF out.raised THEN call ELSE "mark_failed"
            /\ UNCHANGED <<recorded, out_of_order, execVars, analysisVars, evaluatorVars>>

\* run = run.mark_completed(completed_at=...)
MarkCompleted ==
    \E completed_at \in {None} \cup {Some(t) : t \in Times}, now \in Times :
        LET out == mark_completed(run, completed_at, now)
        IN  /\ run' = out.run
            /\ call' = IF out.raised THEN call ELSE "mark_completed"
            /\ UNCHANGED <<recorded, out_of_order, execVars, analysisVars, evaluatorVars>>

\* run = run.record_result(result)
RecordResult ==
    \E result \in TestResults :
        LET out == record_result(run, result)
        IN  /\ run' = out.run
            /\ call' = IF out.raised THEN call ELSE "record_result"
            /\ recorded' = IF out.raised THEN recorded ELSE recorded \cup {result}
            /\ out_of_order' =
                  IF out.raised THEN out_of_order
                  ELSE out_of_order \/
                       \E n \in TestNumbersOf(run.results) : result.test_number < n
            /\ UNCHANGED <<execVars, analysisVars, evaluatorVars>>

NextRun == MarkRunning \/ MarkFailed \/ MarkCompleted \/ RecordResult

SpecRun == InitRun /\ [][NextRun]_vars

\* ------------------------------------------------- ExperimentExecutor.run
InitExec ==
    /\ run = NewRun(FirstConfig, generate_test_configs(FirstConfig, DefaultReplications))
    /\ InitRunVars
    /\ InitExecVars
    /\ InitAnalysisVars
    /\ evaluator = RubricEvaluator(TRUE, DefaultMaxRetries)
    /\ InitEvaluatorVars
    /\ persistence_path \in {None, Some("path")}

Ended == pc \in {"idle", "returned", "raised"}
CurrentTest == run_state.test_configurations[position]

\* executor.py 71-111: run(config, resume_from=..., persist_path=...) is
\* called; the code up to the loop has no await and is one step.  A resumed
\* run is the one loaded from the file.  The resume check raises before
\* anything else is done; the run is then put in RUNNING and saved and the
\* progress callback is called (a callback that returns); an exception of
\* the workflow resolver is not caught by run().
Call ==
    /\ Ended
    /\ \E config_ \in Configs, resume \in BOOLEAN, now \in Times :
          /\ resume => persisted # None
          /\ LET resume_from == IF resume THEN Some(load_run(persisted[1])) ELSE None
                 fresh == NewRun(config_, generate_test_configs(config_, DefaultReplications))
                 running ==
                     ensure_running_state(IF resume THEN resume_from[1] ELSE fresh, now)
             IN  /\ config' = config_
                 /\ resumed' = IF resume THEN Some(TestNumbersOf(resume_from[1].results))
                               ELSE None
                 /\ IF resume /\ validate_resume_config_raises(config_, resume_from[1])
                    THEN /\ pc' = "raised"
                         /\ raised_exc' = Some(ResumeError)
                         /\ run_state' = resume_from[1]
                         /\ position' = 0
                         /\ resolved' = FALSE
                         /\ progress' = <<>>
                         /\ UNCHANGED <<produced, persisted>>
                    ELSE /\ run_state' = running
                         /\ produced' = IF resume THEN produced ELSE {}
                         /\ persisted' =
                               IF persistence_path # None THEN Some(save_run(running))
                               ELSE persisted
                         /\ resolved' = TRUE
                         /\ progress' = <<<<Len(running.results), Len(running.test_configurations)>>>>
                         /\ \/ /\ pc' = "loop"
                               /\ position' = 1
                               /\ raised_exc' = None
                            \/ \E message \in ExcMessages :
                                  /\ pc' = "raised"
                                  /\ position' = 0
                                  /\ raised_exc' = Some(Exception("ValueError", message))
    /\ pending' = None
    /\ exc' = None
    /\ failed_in' = ""
    /\ workflow_calls' = <<>>
    /\ evaluator_calls' = <<>>
    /\ UNCHANGED <<runVars, analysisVars, evaluatorVars, persistence_path>>

\* The for loop that runs a recorded test again instead of skipping it.
Loop_without_skip ==
    /\ pc = "loop"
    /\ IF position > Len(run_state.test_configurations)
       THEN pc' = "complete" /\ UNCHANGED position
       ELSE pc' = "prepare" /\ UNCHANGED position
    /\ UNCHANGED <<runVars, analysisVars, evaluatorVars, config, persistence_path, resumed, run_state, pending, exc,
                   failed_in, raised_exc, produced, persisted, workflow_calls,
                   evaluator_calls, resolved, progress>>

\* executor.py 114-116: the next configuration of the for loop; one whose
\* test number is already in the results is skipped.
Loop ==
    /\ pc = "loop"
    /\ IF position > Len(run_state.test_configurations)
       THEN pc' = "complete" /\ UNCHANGED position
       ELSE IF CurrentTest \in TestNumbersOf(run_state.results)
       THEN pc' = "loop" /\ position' = position + 1
       ELSE pc' = "prepare" /\ UNCHANGED position
    /\ UNCHANGED <<runVars, analysisVars, evaluatorVars, config, persistence_path, resumed, run_state, pending, exc,
                   failed_in, raised_exc, produced, persisted, workflow_calls,
                   evaluator_calls, resolved, progress>>

\* executor.py 192-194: run_single_test prepares the workflow input; an
\* exception of the hook is not wrapped.
Prepare ==
    /\ pc = "prepare"
    /\ \/ pc' = "workflow" /\ UNCHANGED <<exc, failed_in>>
       \/ \E message \in ExcMessages :
             /\ pc' = "except"
             /\ exc' = Some(Exception("RuntimeError", message))
             /\ failed_in' = "run_single_test"
    /\ UNCHANGED <<runVars, analysisVars, evaluatorVars, config, persistence_path, resumed, run_state, position, pending,
                   raised_exc, produced, persisted, workflow_calls, evaluator_calls, resolved, progress>>

\* The workflow called again for the same test when it raises.
Workflow_retrying ==
    /\ pc = "workflow"
    /\ workflow_calls' = Append(workflow_calls, CurrentTest)
    /\ \/ \E m \in Metrics :
             /\ pc' = "evaluate"
             /\ pending' = Some([cost |-> m[1], latency |-> m[2]])
       \/ pc' = "workflow" /\ UNCHANGED pending
    /\ UNCHANGED <<runVars, analysisVars, evaluatorVars, config, persistence_path, resumed, run_state, position,
                   exc, failed_in, raised_exc, produced, persisted, evaluator_calls, resolved, progress>>

\* executor.py 199-223: the workflow runs; its exceptions are wrapped.
Workflow ==
    /\ pc = "workflow"
    /\ workflow_calls' = Append(workflow_calls, CurrentTest)
    /\ \/ \E m \in Metrics :
             /\ pc' = "evaluate"
             /\ pending' = Some([cost |-> m[1], latency |-> m[2]])
             /\ UNCHANGED <<exc, failed_in>>
       \/ \E type \in WorkflowErrorTypes, message \in ExcMessages :
             /\ pc' = "except"
             /\ exc' = Some(wrap_workflow_error(Exception(type, message), CurrentTest))
             /\ failed_in' = "run_single_test"
             /\ UNCHANGED pending
    /\ UNCHANGED <<runVars, analysisVars, evaluatorVars, config, persistence_path, resumed, run_state, position,
                   raised_exc, produced, persisted, evaluator_calls, resolved, progress>>

\* executor.py 225-275: the output is evaluated (an exception of the evaluator
\* is not wrapped) and the TestResult is built.
Evaluate ==
    /\ pc = "evaluate"
    /\ evaluator_calls' = Append(evaluator_calls, CurrentTest)
    /\ \/ \E q \in EvaluatedQualities :
             LET result == TestResult(CurrentTest, q, NonNegative(pending[1].cost),
                                      NonNegative(pending[1].latency))
             IN  /\ pc' = "record"
                 /\ pending' = Some(result)
                 /\ produced' = produced \cup {result}
                 /\ UNCHANGED <<exc, failed_in>>
       \/ \E message \in ExcMessages :
             /\ pc' = "except"
             /\ exc' = Some(Exception("EvaluationError", message))
             /\ failed_in' = "run_single_test"
             /\ UNCHANGED <<pending, produced>>
    /\ UNCHANGED <<runVars, analysisVars, evaluatorVars, config, persistence_path, resumed, run_state, position,
                   raised_exc, persisted, workflow_calls, resolved, progress>>

\* Recording a result without saving the run.
Record_without_save ==
    /\ pc = "record"
    /\ LET out == record_result(run_state, pending[1])
       IN  IF out.raised
           THEN /\ pc' = "except"
                /\ exc' = Some(Exception("ValueError",
                                          record_result_error(run_state, pending[1])))
                /\ failed_in' = "record_result"
                /\ UNCHANGED <<run_state, pending, position, progress>>
           ELSE /\ pc' = "loop"
                /\ run_state' = out.run
                /\ pending' = None
                /\ position' = position + 1
                /\ progress' = Append(progress, <<Len(out.run.results), Len(run_state.test_configurations)>>)
                /\ UNCHANGED <<exc, failed_in>>
    /\ UNCHANGED <<runVars, analysisVars, evaluatorVars, config, persistence_path, resumed, raised_exc,
                   produced, persisted, workflow_calls, evaluator_calls, resolved>>

\* The progress callback called with the count before the result was recorded.
Record_reporting_previous_count ==
    /\ pc = "record"
    /\ LET out == record_result(run_state, pending[1])
       IN  IF out.raised
           THEN /\ pc' = "except"
                /\ exc' = Some(Exception("ValueError",
                                          record_result_error(run_state, pending[1])))
                /\ failed_in' = "record_result"
                /\ UNCHANGED <<run_state, pending, position, persisted, progress>>
           ELSE /\ pc' = "loop"
                /\ run_state' = out.run
                /\ pending' = None
                /\ persisted' = IF persistence_path # None THEN Some(save_run(out.run))
                                ELSE persisted
                /\ position' = position + 1
                /\ progress' = Append(progress, <<Len(run_state.results), Len(run_state.test_configurations)>>)
                /\ UNCHANGED <<exc, failed_in>>
    /\ UNCHANGED <<runVars, analysisVars, evaluatorVars, config, persistence_path, resumed, raised_exc,
                   produced, workflow_calls, evaluator_calls, resolved>>

\* executor.py 132-138: run_state = run_state.record_result(result); the run
\* is saved after the result, and the loop goes on.
Record ==
    /\ pc = "record"
    /\ LET out == record_result(run_state, pending[1])
       IN  IF out.raised
           THEN /\ pc' = "except"
                /\ exc' = Some(Exception("ValueError",
                                          record_result_error(run_state, pending[1])))
                /\ failed_in' = "record_result"
                /\ UNCHANGED <<run_state, pending, position, persisted, progress>>
           ELSE /\ pc' = "loop"
                /\ run_state' = out.run
                /\ pending' = None
                /\ persisted' = IF persistence_path # None THEN Some(save_run(out.run))
                                ELSE persisted
                /\ position' = position + 1
                /\ progress' = Append(progress, <<Len(out.run.results), Len(run_state.test_configurations)>>)
                /\ UNCHANGED <<exc, failed_in>>
    /\ UNCHANGED <<runVars, analysisVars, evaluatorVars, config, persistence_path, resumed, raised_exc,
                   produced, workflow_calls, evaluator_calls, resolved>>

\* The completion without the test for a run that is already COMPLETED.
Complete_always ==
    /\ pc = "complete"
    /\ \E now \in Times :
          LET out == mark_completed(run_state, None, now)
          IN  IF out.raised
              THEN /\ pc' = "except"
                   /\ exc' = Some(Exception("ValueError", mark_completed_error(run_state)))
                   /\ failed_in' = "mark_completed"
                   /\ UNCHANGED <<run_state, persisted>>
              ELSE /\ pc' = "returned"
                   /\ run_state' = out.run
                   /\ persisted' = IF persistence_path # None THEN Some(save_run(out.run))
                                   ELSE persisted
                   /\ UNCHANGED <<exc, failed_in>>
    /\ UNCHANGED <<runVars, analysisVars, evaluatorVars, config, persistence_path, resumed, position, pending, raised_exc,
                   produced, workflow_calls, evaluator_calls, resolved, progress>>

\* executor.py 141-150: the run is completed unless it already is, saved a
\* last time, and run() returns run_state.
Complete ==
    /\ pc = "complete"
    /\ \E now \in Times :
          LET out == mark_completed(run_state, None, now)
              completed == IF run_state.status = "COMPLETED" THEN run_state ELSE out.run
          IN  IF run_state.status # "COMPLETED" /\ out.raised
              THEN /\ pc' = "except"
                   /\ exc' = Some(Exception("ValueError", mark_completed_error(run_state)))
                   /\ failed_in' = "mark_completed"
                   /\ UNCHANGED <<run_state, persisted>>
              ELSE /\ pc' = "returned"
                   /\ run_state' = completed
                   /\ persisted' = IF persistence_path # None THEN Some(save_run(completed))
                                   ELSE persisted
                   /\ UNCHANGED <<exc, failed_in>>
    /\ UNCHANGED <<runVars, analysisVars, evaluatorVars, config, persistence_path, resumed, position, pending, raised_exc,
                   produced, workflow_calls, evaluator_calls, resolved, progress>>

\* error_message = str(exc).strip() or exc.__class__.__name__
error_message(exc_) ==
    IF strip(exc_.message) # <<>> THEN strip(exc_.message) ELSE <<exc_.type>>

\* raise (an ExperimentError) or raise ExperimentError(...) from exc
reraised(exc_) == IF exc_.type = "ExperimentError" THEN exc_ ELSE ExecutionFailed

\* The except clause's FAILED run without the results recorded so far.
failed_state_without_results(run_, exc_) ==
    [run_ EXCEPT !.status = "FAILED", !.error = Some(error_message(exc_)),
                 !.results = <<>>]

\* run_state after the except clause's mark_failed, with its fallback.
failed_state(run_, exc_) ==
    LET out == mark_failed(run_, error_message(exc_))
    IN  IF out.raised
        THEN [run_ EXCEPT !.status = "FAILED", !.error = Some(error_message(exc_))]
        ELSE out.run

\* The except clause that marks the run FAILED and does not save it.
Except_without_save ==
    /\ pc = "except"
    /\ run_state' = IF run_state.status = "RUNNING" THEN failed_state(run_state, exc[1])
                    ELSE run_state
    /\ pc' = "raised"
    /\ raised_exc' = Some(reraised(exc[1]))
    /\ UNCHANGED <<runVars, analysisVars, evaluatorVars, config, persistence_path, resumed, position, pending, exc,
                   failed_in, produced, persisted, workflow_calls, evaluator_calls, resolved, progress>>

\* The except clause that returns the run it marked FAILED instead of raising.
Except_returning_run ==
    /\ pc = "except"
    /\ IF run_state.status = "RUNNING"
       THEN /\ run_state' = failed_state(run_state, exc[1])
            /\ persisted' =
                  IF persistence_path # None
                  THEN Some(save_run(failed_state(run_state, exc[1])))
                  ELSE persisted
       ELSE UNCHANGED <<run_state, persisted>>
    /\ pc' = "returned"
    /\ UNCHANGED <<runVars, analysisVars, evaluatorVars, config, persistence_path, resumed, position, pending, exc,
                   failed_in, raised_exc, produced, workflow_calls, evaluator_calls, resolved, progress>>

\* executor.py 151-170: the except clause marks a RUNNING run FAILED and saves
\* it; a run that is not RUNNING is left as it is; the exception is raised.
Except ==
    /\ pc = "except"
    /\ IF run_state.status = "RUNNING"
       THEN /\ run_state' = failed_state(run_state, exc[1])
            /\ persisted' =
                  IF persistence_path # None
                  THEN Some(save_run(failed_state(run_state, exc[1])))
                  ELSE persisted
       ELSE UNCHANGED <<run_state, persisted>>
    /\ pc' = "raised"
    /\ raised_exc' = Some(reraised(exc[1]))
    /\ UNCHANGED <<runVars, analysisVars, evaluatorVars, config, persistence_path, resumed, position, pending, exc,
                   failed_in, produced, workflow_calls, evaluator_calls, resolved, progress>>

Next ==
    \/ Call \/ Loop \/ Prepare \/ Workflow \/ Evaluate \/ Record \/ Complete \/ Except

Spec == InitExec /\ [][Next]_vars

\* ----------------------------------- run() called again after each failure
\* A caller that starts run() with a persist path and, whenever run() raises,
\* calls it again with the same config and resume_from loaded from the file;
\* once run() has returned the caller is done.
InitResume ==
    /\ InitExec
    /\ persistence_path = Some("path")

StartOrResume ==
    /\ pc \in {"idle", "raised"}
    /\ Call
    /\ config' = config
    /\ (resumed' = None) <=> (pc = "idle")

NextResume ==
    \/ StartOrResume \/ Loop \/ Prepare \/ Workflow \/ Evaluate \/ Record \/ Complete
    \/ Except

\* A step of run() seen through its position alone: the control leaves one of
\* the places in `from` for one of the places in `to`, the for loop starting,
\* staying where it is or moving to the next configuration.  Every step of NextResume
\* that changes <<pc, position>> is such a step, and nothing else changes them.
Places ==
    {"idle", "loop", "prepare", "workflow", "evaluate", "record", "complete",
     "except", "returned", "raised"}
Advances(from, to) ==
    /\ pc \in from
    /\ pc' \in to
    /\ position' \in {0, 1, position, position + 1}

\* Every step of run() is taken in the end (the loop header, record_result,
\* the completion and the except clause do not wait for anything), the caller
\* calls again after a failure, and no part of a test fails for ever: loading
\* the snapshot, the input hook, the workflow and the evaluator each succeed
\* in the end when they are called again and again.
ResumeFairness ==
    /\ WF_<<pc, position>>(Advances({"loop", "record", "complete", "except"}, Places))
    /\ SF_<<pc, position>>(Advances({"idle", "raised"}, {"loop"}))
    /\ SF_<<pc, position>>(Advances({"prepare"}, {"workflow"}))
    /\ SF_<<pc, position>>(Advances({"workflow"}, {"evaluate"}))
    /\ SF_<<pc, position>>(Advances({"evaluate"}, {"record"}))

SpecResume == InitResume /\ [][NextResume]_vars /\ ResumeFairness

\* ------------------------------------------- the analysis functions
\* Each behaviour applies one function to one input.
MaxPoints == 3
MaxAxis == 2
AxisValues == 0..MaxAxis
\* The axis pairs a frontier is computed for.
ParetoAxes == {<<"cost", "quality">>, <<"latency", "utility">>}

\* A result for the Pareto analysis: x and y are its values on the chosen
\* axes, and the fields of the other axes are 0.
ParetoResult(n, axes, x, y) ==
    [test_number |-> n,
     cost |-> IF axes[1] = "cost" THEN x ELSE 0,
     latency |-> IF axes[1] = "latency" THEN x ELSE 0,
     quality |-> IF axes[2] = "quality" THEN y ELSE 0,
     utility |-> IF axes[2] = "utility" THEN y ELSE 0]

InitAnalysis ==
    /\ run = NewRun(FirstConfig, generate_test_configs(FirstConfig, DefaultReplications))
    /\ InitRunVars
    /\ InitExecVars
    /\ InitAnalysisVars
    /\ evaluator = RubricEvaluator(TRUE, DefaultMaxRetries)
    /\ InitEvaluatorVars
    /\ persistence_path = None

\* ParetoFrontier.compute(results, x_axis=..., y_axis=...)
ParetoCompute ==
    /\ fn = "none"
    /\ \E axes \in ParetoAxes, n \in 1..MaxPoints :
          \E xs \in [1..n -> AxisValues], ys \in [1..n -> AxisValues] :
              LET results == [i \in 1..n |-> ParetoResult(i, axes, xs[i], ys[i])]
              IN  /\ fn' = "ParetoFrontier.compute"
                  /\ args' = [results |-> results, x_axis |-> axes[1], y_axis |-> axes[2]]
                  /\ value' = pareto_compute(results, axes[1], axes[2])
    /\ UNCHANGED <<runVars, execVars, evaluatorVars>>

\* The variables of the experiment, and the names effects are given for:
\* those and one that is no variable of the experiment.
MaxAvg == 2
AnalysisVariables == <<Variable("a"), Variable("b")>>
EffectNames == {"a", "b", "z"}
\* Effect, reduced to the two level means (utilities, in units).
Effects == [avg_level_1 : 0..MaxAvg, avg_level_2 : 0..MaxAvg]

\* identify_optimal_config(main_effects, variables)
IdentifyOptimalConfig ==
    /\ fn = "none"
    /\ \E names \in (SUBSET EffectNames) \ {{}} :
          \E effects \in [names -> Effects] :
              LET main_effects == [effects |-> effects]
              IN  /\ fn' = "identify_optimal_config"
                  /\ args' = [main_effects |-> main_effects,
                              variables |-> AnalysisVariables]
                  /\ value' = identify_optimal_config(main_effects, AnalysisVariables)
    /\ UNCHANGED <<runVars, execVars, evaluatorVars>>

\* The variables of an experiment, in order, and the utilities of results.
VariableNames == <<"a", "b", "c", "d", "e", "f", "g", "h", "i">>
MaxUtility == 1
ExperimentVariables(count) == [j \in 1..count |-> Variable(VariableNames[j])]

\* The results of the plan generate_test_configs gives for the variables,
\* with utilities[k] the utility of test k.
PlanResults(variables, utilities) ==
    LET test_configs == generate_test_configs_of(variables, 1).test_configs
    IN  [k \in 1..Len(test_configs) |->
            [test_number |-> test_configs[k].test_number,
             config_values |-> test_configs[k].config_values,
             utility |-> Frac(utilities[k], 1)]]

\* MainEffectsAnalyzer.compute(results, variables, experiment_id=...) on the
\* 8 results of an L8 plan
MainEffectsCompute ==
    /\ fn = "none"
    /\ \E count \in 4..7 :
          \E utilities \in [1..Len(L8_ARRAY) -> 0..MaxUtility] :
              LET variables == ExperimentVariables(count)
                  results == PlanResults(variables, utilities)
              IN  /\ fn' = "MainEffectsAnalyzer.compute"
                  /\ args' = [results |-> results, variables |-> variables]
                  /\ value' = main_effects_compute(results, variables)
    /\ UNCHANGED <<runVars, execVars, evaluatorVars>>

\* generate_l8_array(num_variables), for the counts it accepts and those
\* next to them
GenerateL8Array ==
    /\ fn = "none"
    /\ \E num_variables \in 0..(Len(L8_ARRAY[1]) + 1) :
          /\ fn' = "generate_l8_array"
          /\ args' = [num_variables |-> num_variables]
          /\ value' = generate_l8_array(num_variables)
    /\ UNCHANGED <<runVars, execVars, evaluatorVars>>

\* generate_test_configs(config, replications=...) for a config of count
\* variables
MaxReplications == 2
GenerateTestConfigs ==
    /\ fn = "none"
    /\ \E count \in 3..Len(VariableNames), replications \in 0..MaxReplications :
          LET variables == ExperimentVariables(count)
          IN  /\ fn' = "generate_test_configs"
              /\ args' = [variables |-> variables, replications |-> replications]
              /\ value' = generate_test_configs_of(variables, replications)
    /\ UNCHANGED <<runVars, execVars, evaluatorVars>>

\* frontier.best_within_budget(budget) on the frontier compute returns for
\* up to MaxBudgetPoints results; the budgets go from below every x value to
\* above every x value.
MaxBudgetPoints == 2
BestWithinBudget ==
    /\ fn = "none"
    /\ \E n \in 1..MaxBudgetPoints, budget \in (0 - 2)..MaxAxis :
          \E xs \in [1..n -> AxisValues], ys \in [1..n -> AxisValues] :
              LET results == [i \in 1..n |-> ParetoResult(i, <<"cost", "quality">>, xs[i], ys[i])]
                  frontier == pareto_compute(results, "cost", "quality")
              IN  /\ fn' = "best_within_budget"
                  /\ args' = [frontier |-> frontier, budget |-> budget]
                  /\ value' = best_within_budget(frontier, budget)
    /\ UNCHANGED <<runVars, execVars, evaluatorVars>>

\* UtilityFunction.normalize_metrics(values, method=...)
MaxValues == 3
MaxValue == 2
Methods == {"min-max", "z-score"}
NormalizeMetrics ==
    /\ fn = "none"
    /\ \E n \in 0..MaxValues, method \in Methods :
          \E values \in [1..n -> 0..MaxValue] :
              /\ fn' = "normalize_metrics"
              /\ args' = [values |-> values, method |-> method]
              /\ value' = normalize_metrics_by(values, method)
    /\ UNCHANGED <<runVars, execVars, evaluatorVars>>

\* ExperimentConfig(variables=...) for 0 to 9 variables, all of different
\* names or with the name of one repeated by a later one.
Repeats(count) ==
    {<<0, 0>>} \cup {pair \in (1..count) \X (1..count) : pair[1] < pair[2]}
ConstructConfig ==
    /\ fn = "none"
    /\ \E count \in 0..Len(VariableNames) :
          \E repeat \in Repeats(count) :
              LET variables ==
                      [j \in 1..count |->
                          IF j = repeat[2] THEN Variable(VariableNames[repeat[1]])
                          ELSE Variable(VariableNames[j])]
              IN  /\ fn' = "ExperimentConfig"
                  /\ args' = [variables |-> variables]
                  /\ value' = ExperimentConfig(variables)
    /\ UNCHANGED <<runVars, execVars, evaluatorVars>>

NextAnalysis ==
    \/ ConstructConfig
    \/ NormalizeMetrics
    \/ BestWithinBudget
    \/ ParetoCompute
    \/ IdentifyOptimalConfig
    \/ MainEffectsCompute
    \/ GenerateL8Array
    \/ GenerateTestConfigs

SpecAnalysis == InitAnalysis /\ [][NextAnalysis]_vars

\* ------------------------------------------- RubricEvaluator.evaluate
MaxRetries == 3
MaxEvaluations == 2

InitEvaluator ==
    /\ run = NewRun(FirstConfig, generate_test_configs(FirstConfig, DefaultReplications))
    /\ InitRunVars
    /\ InitExecVars
    /\ persistence_path = None
    /\ InitAnalysisVars
    /\ \E cache_configured \in BOOLEAN, max_retries \in 1..MaxRetries :
          evaluator = RubricEvaluator(cache_configured, max_retries)
    /\ InitEvaluatorVars

\* The arguments a caller passes: the flags left out or set, the cache key
\* left out, given, or blank.
FlagArguments == {None, Some(TRUE)}
CacheKeyArguments == {None, Some(<<"k">>), Some(<<" ">>)}

\* evaluate(...) from its call to its first await, or to its end when it
\* raises before any request or is served from the cache.
EvaluateCall ==
    /\ evaluate_pc \in {"idle", "returned", "raised"}
    /\ evaluations < MaxEvaluations
    /\ \E use_cache \in FlagArguments, record_cache \in FlagArguments,
          cache_key \in CacheKeyArguments :
          LET effective_use_cache ==
                  IF use_cache = None THEN evaluator.default_use_cache ELSE use_cache[1]
              effective_record_cache ==
                  IF record_cache = None THEN evaluator.default_record_cache
                  ELSE record_cache[1]
              requested_cache ==
                  effective_use_cache \/ effective_record_cache \/ cache_key # None
              resolved_cache_key ==
                  IF ~evaluator.cache_configured THEN None
                  ELSE IF cache_key # None /\ cache_key[1] # <<>>
                  THEN Some(strip(cache_key[1]))
                  ELSE Some(build_cache_key(Prompt))
              cached ==
                  IF evaluator.cache_configured /\ effective_use_cache
                  THEN cache[resolved_cache_key[1]]
                  ELSE None
              called ==
                  [NoEvaluation EXCEPT
                      !.use_cache = use_cache,
                      !.record_cache = record_cache,
                      !.cache_key = cache_key,
                      !.effective_use_cache = effective_use_cache,
                      !.effective_record_cache = effective_record_cache,
                      !.cache_at_call = cache]
          IN  /\ evaluations' = evaluations + 1
              /\ IF requested_cache /\ ~evaluator.cache_configured
                 THEN /\ evaluation' = raise_evaluation_error(called)
                      /\ evaluate_pc' = "raised"
                      /\ events' = <<>>
                 ELSE IF resolved_cache_key = Some(<<>>)
                 THEN /\ evaluation' =
                            raise_evaluation_error(
                                [called EXCEPT !.resolved_cache_key = resolved_cache_key])
                      /\ evaluate_pc' = "raised"
                      /\ events' = <<>>
                 ELSE IF cached # None
                 THEN /\ evaluation' =
                            finish_evaluation(
                                [called EXCEPT !.resolved_cache_key = resolved_cache_key,
                                               !.cached = cached,
                                               !.cache_hit = TRUE],
                                cached[1])
                      /\ evaluate_pc' =
                            IF quality_from(cached[1]).raised THEN "raised" ELSE "returned"
                      /\ events' = <<>>
                 ELSE /\ evaluation' =
                            [called EXCEPT !.resolved_cache_key = resolved_cache_key,
                                           !.attempt = 1]
                      /\ evaluate_pc' = "requesting"
                      /\ events' = <<"request">>
    /\ UNCHANGED <<runVars, execVars, analysisVars, evaluator, cache>>

\* litellm.acompletion returns a response: _request_with_retry returns it and
\* evaluate runs to its end.
RequestSucceeds ==
    /\ evaluate_pc = "requesting"
    /\ \E response \in Responses :
          LET after == after_response(evaluator, evaluation, cache, response)
          IN  /\ evaluation' = after.evaluation
              /\ cache' = after.cache
              /\ evaluate_pc' =
                    IF after.evaluation.outcome[1].raised THEN "raised" ELSE "returned"
    /\ UNCHANGED <<runVars, execVars, analysisVars, evaluator, events, evaluations>>

\* litellm.acompletion raises: the except clause of _request_with_retry.
RequestFails ==
    /\ evaluate_pc = "requesting"
    /\ LET after == after_failure(evaluator, evaluation, events)
       IN  /\ evaluate_pc' = after.pc
           /\ evaluation' = after.evaluation
           /\ events' = after.events
    /\ UNCHANGED <<runVars, execVars, analysisVars, evaluator, cache, evaluations>>

\* asyncio.sleep returns: the next attempt calls litellm.acompletion.
SleepEnds ==
    /\ evaluate_pc = "sleeping"
    /\ evaluation' = [evaluation EXCEPT !.attempt = @ + 1]
    /\ events' = Append(events, "request")
    /\ evaluate_pc' = "requesting"
    /\ UNCHANGED <<runVars, execVars, analysisVars, evaluator, cache, evaluations>>

NextEvaluator == EvaluateCall \/ RequestSucceeds \/ RequestFails \/ SleepEnds

\* Every awaited call ends: litellm.acompletion returns or raises, and
\* asyncio.sleep returns.
SpecEvaluator ==
    /\ InitEvaluator
    /\ [][NextEvaluator]_vars
    /\ WF_vars(RequestSucceeds \/ RequestFails)
    /\ WF_vars(SleepEnds)

\* ------------------------------------------------------------ properties
PlannedNumbers(r) == {r.test_configurations[i] : i \in 1..Len(r.test_configurations)}
StartedArgs == {None} \cup {Some(t) : t \in Times}

AllowedStatusChanges ==
    {<<"PENDING", "RUNNING">>, <<"RUNNING", "FAILED">>,
     <<"FAILED", "RUNNING">>, <<"RUNNING", "COMPLETED">>}

\* C1: the status of a run changes only along PENDING->RUNNING,
\* RUNNING->FAILED, FAILED->RUNNING and RUNNING->COMPLETED; mark_running
\* raises from RUNNING and from COMPLETED; mark_failed and mark_completed
\* raise from every status but RUNNING; record_result never changes the
\* status; no mutator succeeds on a COMPLETED run.
C1_StatusTransitions ==
    /\ [][run'.status # run.status => <<run.status, run'.status>> \in AllowedStatusChanges]_vars
    /\ [](run.status \in {"RUNNING", "COMPLETED"} =>
             (\A a \in StartedArgs, now \in Times : mark_running(run, a, now).raised))
    /\ [](run.status # "RUNNING" =>
             (\A e \in Messages : mark_failed(run, e).raised))
    /\ [](run.status # "RUNNING" =>
             (\A a \in StartedArgs, now \in Times : mark_completed(run, a, now).raised))
    /\ [](\A r \in TestResults : record_result(run, r).run.status = run.status)
    /\ [](run.status = "COMPLETED" =>
             (\A r \in TestResults : record_result(run, r).raised))

\* C1 witness: a run that reached COMPLETED, the terminal status, through
\* mark_completed.
C1_Witness ==
    /\ run.status = "COMPLETED"
    /\ call = "mark_completed"

Trimmed(message) == message # <<>> /\ strip(message) = message

\* C2: every run reached from a new PENDING run through the mutators
\* satisfies the status-conditional invariants (PENDING: no results, no
\* timestamps, no error; RUNNING: started_at, no completed_at, no error;
\* COMPLETED: all results, both timestamps, no error; FAILED: a non-empty
\* trimmed error and started_at), holds no more results than planned tests,
\* and is accepted by the validator.
C2_StateInvariants ==
    /\ Len(run.results) <= Len(run.test_configurations)
    /\ run.status = "PENDING" =>
          run.results = <<>> /\ run.started_at = None /\ run.completed_at = None
            /\ run.error = None
    /\ run.status = "RUNNING" =>
          run.started_at # None /\ run.completed_at = None /\ run.error = None
    /\ run.status = "COMPLETED" =>
          Len(run.results) = Len(run.test_configurations) /\ run.started_at # None
            /\ run.completed_at # None /\ run.error = None
    /\ run.status = "FAILED" =>
          run.error # None /\ Trimmed(run.error[1]) /\ run.started_at # None
    /\ validate_state(run)

\* C2 witness: a FAILED run that was started again and holds results.
C2_Witness ==
    /\ run.status = "RUNNING"
    /\ call = "mark_running"
    /\ run.results # <<>>

\* The results as run_single_test returned them: utility not yet computed.
Unscored(results) ==
    {with_utility(results[i], Frac(0, 1)) : i \in 1..Len(results)}

InTest == pc \in {"prepare", "workflow", "evaluate"}

\* C3: with a persist path, whenever the next test starts (its input is
\* prepared, its workflow or its evaluator is invoked) the document in the
\* file is the snapshot of the in-memory run, and it holds every result
\* returned by run_single_test so far, one per test executed or resumed.
C3_SavedBeforeNextTest ==
    persistence_path # None /\ InTest =>
        /\ persisted = Some(save_run(run_state))
        /\ produced = Unscored(persisted[1].results)
        /\ TestNumbersOf(persisted[1].results) =
              {run_state.test_configurations[i] : i \in 1..(position - 1)}

\* C3 witness: the workflow of a later test is about to be invoked after a
\* result was recorded in this invocation, and the file holds that result.
C3_Witness ==
    /\ persistence_path # None
    /\ pc = "workflow"
    /\ workflow_calls # <<>>
    /\ persisted # None
    /\ Len(persisted[1].results) >= 1

\* The message with its leading and trailing whitespace removed, or the
\* class name when nothing is left.
TrimmedOrClassName(exc_) ==
    LET m == exc_.message
        kept == {i \in 1..Len(m) : m[i] # " "}
    IN  IF kept = {} THEN <<exc_.type>>
        ELSE SubSeq(m, SetMin(kept), SetMax(kept))

\* What C4 asks of the step of the except clause, for the error it names.
FailureHandled(error) ==
    pc = "except" /\ failed_in = "run_single_test" /\ run_state.status = "RUNNING" =>
        /\ run_state'.status = "FAILED"
        /\ run_state'.error = Some(error)
        /\ pc' = "raised"
        /\ raised_exc' # None
        /\ run_state'.results = run_state.results
        /\ Unscored(run_state'.results) = produced
        /\ persistence_path # None =>
              /\ persisted' = Some(save_run(run_state'))
              /\ persisted'[1].status = "FAILED"
              /\ persisted'[1].results = run_state.results

\* C4 as stated: when a test raises while the run is RUNNING, run() makes
\* the run FAILED with the exception's message as error, saves that snapshot
\* and raises; the snapshot holds exactly the results recorded before.
C4_FailedWithExceptionMessage == [][FailureHandled(exc[1].message)]_vars

\* C4, amended: the same, where the error is the exception's message with
\* surrounding whitespace removed, or the exception's class name when the
\* message is empty or blank.
C4_FailedWithTrimmedMessage == [][FailureHandled(TrimmedOrClassName(exc[1]))]_vars

\* C4 witness: run() raised out of the second or a later test with a
\* persist path: the file holds the FAILED run and the earlier results.
C4_Witness ==
    /\ pc = "raised"
    /\ failed_in = "run_single_test"
    /\ persistence_path # None
    /\ persisted = Some(save_run(run_state))
    /\ run_state.status = "FAILED"
    /\ Len(run_state.results) >= 1

SeqToSet(s) == {s[i] : i \in 1..Len(s)}
NoRepeat(s) == Cardinality(SeqToSet(s)) = Len(s)

\* C5: a call with resume_from never invokes the workflow or the evaluator
\* for a test number in the resumed run's results; the tests it executes are
\* planned ones without a result, each once, all of them when run() returns;
\* the results of the resumed run are kept.
C5_ResumeSkipsRecorded ==
    resumed # None =>
        /\ SeqToSet(workflow_calls) \cap resumed[1] = {}
        /\ SeqToSet(evaluator_calls) \cap resumed[1] = {}
        /\ SeqToSet(workflow_calls) \subseteq PlannedNumbers(run_state)
        /\ SeqToSet(evaluator_calls) \subseteq SeqToSet(workflow_calls)
        /\ NoRepeat(workflow_calls) /\ NoRepeat(evaluator_calls)
        /\ resumed[1] \subseteq TestNumbersOf(run_state.results)
        /\ {r \in produced : r.test_number \in resumed[1]} \subseteq Unscored(run_state.results)
        /\ pc = "returned" =>
              /\ SeqToSet(workflow_calls) = PlannedNumbers(run_state) \ resumed[1]
              /\ SeqToSet(evaluator_calls) = PlannedNumbers(run_state) \ resumed[1]

\* C5 witness: a resumed call returned after it skipped a recorded test and
\* executed a missing one.
C5_Witness ==
    /\ resumed # None
    /\ resumed[1] # {}
    /\ pc = "returned"
    /\ workflow_calls # <<>>

\* C6: a call with resume_from and a config whose dump differs from the dump
\* of the resumed run's config raises the ExperimentError of the resume
\* check at once: the resolver, the workflow and the evaluator are not
\* called, the run keeps its status, and the file is not written.
C6_ResumeRejectsConfigDrift ==
    [][Ended /\ resumed' # None
         /\ model_dump_json(config') # model_dump_json(load_run(persisted[1]).config) =>
             /\ pc' = "raised"
             /\ raised_exc' = Some(ResumeError)
             /\ ~resolved'
             /\ workflow_calls' = <<>>
             /\ evaluator_calls' = <<>>
             /\ run_state' = load_run(persisted[1])
             /\ run_state'.status = persisted[1].status
             /\ persisted' = persisted]_vars

\* C6 witness: a resumed call raised the error of the resume check for a
\* config with other utility weights than the saved run's.
C6_Witness ==
    /\ pc = "raised"
    /\ resumed # None
    /\ raised_exc = Some(ResumeError)
    /\ model_dump_json(config) # persisted[1].config
    /\ ~resolved

\* C7: record_result raises, leaving the run as it is, when the run is not
\* RUNNING, when the test number is already recorded, or when as many results
\* as planned tests are recorded; otherwise it adds exactly the one result.
C7_RecordResultGuards ==
    \A r \in TestResults :
        LET out == record_result(run, r)
            before == {[x EXCEPT !.utility = Frac(0, 1)] :
                          x \in {run.results[i] : i \in 1..Len(run.results)}}
            after == {[x EXCEPT !.utility = Frac(0, 1)] :
                          x \in {out.run.results[i] : i \in 1..Len(out.run.results)}}
        IN  IF \/ run.status # "RUNNING"
               \/ r.test_number \in TestNumbersOf(run.results)
               \/ Len(run.results) = Len(run.test_configurations)
            THEN out.raised /\ out.run = run
            ELSE /\ ~out.raised
                 /\ Len(out.run.results) = Len(run.results) + 1
                 /\ after = before \cup {r}

\* C7 witness: a RUNNING run after a successful record_result, with room
\* left: a duplicate is rejected there and a new test number is accepted.
C7_Witness ==
    /\ call = "record_result"
    /\ run.status = "RUNNING"
    /\ Len(run.results) > 0
    /\ Len(run.results) < Len(run.test_configurations)

\* C8: mark_completed raises whenever the number of recorded results differs
\* from the number of planned configurations, so a COMPLETED run holds a
\* result for every planned test.
C8_CompletedHasEveryPlannedResult ==
    /\ Len(run.results) # Len(run.test_configurations) =>
          \A a \in StartedArgs, now \in Times : mark_completed(run, a, now).raised
    /\ run.status = "COMPLETED" => PlannedNumbers(run) \subseteq TestNumbersOf(run.results)

\* w.quality * quality - w.cost * ncost - w.time * nlatency for results[i],
\* with the min-max normalisation over all of results, written out.
ExpectedUtility(results, i, w) ==
    LET costs == {results[j].cost : j \in 1..Len(results)}
        latencies == {results[j].latency : j \in 1..Len(results)}
        crange == SetMax(costs) - SetMin(costs)
        lrange == SetMax(latencies) - SetMin(latencies)
        cden == IF crange = 0 THEN 1 ELSE crange
        lden == IF lrange = 0 THEN 1 ELSE lrange
        cnum == IF crange = 0 THEN 0 ELSE results[i].cost - SetMin(costs)
        lnum == IF lrange = 0 THEN 0 ELSE results[i].latency - SetMin(latencies)
    IN  Frac(w.quality * results[i].quality * cden * lden
               - w.cost * cnum * QDen * lden
               - w.time * lnum * QDen * cden,
             QDen * cden * lden)

\* C9: every recorded result carries the utility computed with the min-max
\* normalisation of cost and latency over all the results recorded so far.
C9_UtilitiesFresh ==
    \A i \in 1..Len(run.results) :
        run.results[i].utility =
            ExpectedUtility(run.results, i, run.config.utility_weights)

\* C9 witness: a second result with another cost was recorded, which moves
\* the normalisation bounds of the first.
C9_Witness ==
    /\ call = "record_result"
    /\ Len(run.results) >= 2
    /\ \E i, j \in 1..Len(run.results) : run.results[i].cost # run.results[j].cost

\* The run obtained by recording the results of a set in test-number order.
RECURSIVE RecordInOrder(_, _)
RecordInOrder(r, results) ==
    IF results = {} THEN r
    ELSE LET next == CHOOSE x \in results :
                         \A y \in results : x.test_number <= y.test_number
         IN  RecordInOrder(record_result(r, next).run, results \ {next})

\* C10: once all results are recorded, in whatever order, the results list
\* (test numbers and utilities) is the one obtained by recording the same
\* results in test-number order.
C10_OrderIndependent ==
    Len(run.results) = Len(run.test_configurations) =>
        run.results =
            RecordInOrder(
                mark_running(NewRun(run.config, run.test_configurations), None, 1).run,
                recorded).results

\* C10 witness: all results recorded, not in test-number order.
C10_Witness ==
    /\ out_of_order
    /\ Len(run.results) = Len(run.test_configurations)

\* C11: after a successful record_result made once the baseline test (the
\* lowest planned number) is recorded, baseline_result is the entry of
\* results for that number, with the utility that entry has now, and
\* baseline_quality is its overall score.
C11_BaselineSnapshotFresh ==
    call = "record_result" /\ run.baseline_test_number \in TestNumbersOf(run.results) =>
        /\ run.baseline_result = FirstWithNumber(run.results, run.baseline_test_number)
        /\ run.baseline_quality = Some(overall_score(run.baseline_result[1]))

\* The results recorded for the baseline test number.
BaselineEntries(r) ==
    {r.results[i] : i \in {j \in 1..Len(r.results) :
                              r.results[j].test_number = r.baseline_test_number}}

\* (best - baseline) / baseline * 100 for integer qualities over QDen, or
\* None when the baseline quality is not positive.
ImprovementOver(baseline, best) ==
    IF baseline <= 0 THEN None ELSE Some(Frac((best - baseline) * 100, baseline))

\* C12: after record_result and after mark_completed, quality_improvement_pct
\* is (best_quality - baseline_quality) / baseline_quality * 100 with
\* best_quality the highest overall quality among the results, and None when
\* the baseline quality is missing or not positive.
C12_ImprovementFormula ==
    call \in {"record_result", "mark_completed"} =>
        LET best == SetMax({run.results[i].quality : i \in 1..Len(run.results)})
        IN  /\ BaselineEntries(run) = {} => run.quality_improvement_pct = None
            /\ \A b \in BaselineEntries(run) :
                  /\ run.baseline_quality = Some(Frac(b.quality, QDen))
                  /\ run.quality_improvement_pct = ImprovementOver(b.quality, best)

\* C12 witness: a completed run whose best quality is above a positive
\* baseline quality.
C12_Witness ==
    /\ call = "mark_completed"
    /\ run.status = "COMPLETED"
    /\ run.quality_improvement_pct # None
    /\ run.quality_improvement_pct[1][1] > 0

\* The recorded results no other recorded result has a higher utility than.
HighestUtility(r) ==
    {r.results[i] : i \in {j \in 1..Len(r.results) :
        \A k \in 1..Len(r.results) : FracLeq(r.results[k].utility, r.results[j].utility)}}

\* C13: with the baseline recorded, quality_improvement_pct is
\* calculate_quality_improvement(baseline_quality, the quality of a recorded
\* result of highest utility), whatever the utility weights.
C13_ImprovementOfBestUtility ==
    call \in {"record_result", "mark_completed"} /\ BaselineEntries(run) # {} =>
        \E best \in HighestUtility(run) :
            run.quality_improvement_pct =
                calculate_quality_improvement(run.baseline_quality,
                                              Some(overall_score(best)))

StrictlyIncreasing(s) == \A i, j \in 1..Len(s) : i < j => s[i] < s[j]

\* The tests of this call whose workflow was invoked before the test that is
\* now in flight (at "workflow" the call for the test in flight is still to
\* be made).
EarlierTests ==
    IF pc = "evaluate" THEN SeqToSet(SubSeq(workflow_calls, 1, Len(workflow_calls) - 1))
    ELSE SeqToSet(workflow_calls)

\* C15: within one call of run() the tests run one at a time in increasing
\* test-number order: the workflow and the evaluator are called in strictly
\* increasing test numbers, at most one test whose workflow was called has no
\* result yet, and while a test is in flight every earlier test of the call
\* has its result recorded, and saved when a persist path is given.
C15_Sequential ==
    /\ StrictlyIncreasing(workflow_calls)
    /\ StrictlyIncreasing(evaluator_calls)
    /\ Cardinality(SeqToSet(workflow_calls) \ TestNumbersOf(run_state.results)) <= 1
    /\ InTest =>
          /\ EarlierTests \subseteq TestNumbersOf(run_state.results)
          /\ persistence_path # None =>
                EarlierTests \subseteq TestNumbersOf(persisted[1].results)
          /\ \A n \in EarlierTests : n < CurrentTest

\* C15 witness: a call with a persist path returned after it ran every
\* planned test.
C15_Witness ==
    /\ pc = "returned"
    /\ persistence_path # None
    /\ Len(workflow_calls) = PlanRows * DefaultReplications
    /\ Len(evaluator_calls) = PlanRows * DefaultReplications

\* C16: a call resumed from a COMPLETED run that gets past the resume check
\* and the resolver works on that very run, executes no test, does not apply
\* the completion again and returns it as it was: COMPLETED, with the same
\* results, completed_at, baseline fields and quality_improvement_pct.
C16_ResumeCompletedIdempotent ==
    /\ [][(Ended /\ resumed' # None /\ pc' = "loop"
                 /\ load_run(persisted[1]).status = "COMPLETED")
             => (run_state' = load_run(persisted[1]))]_vars
    /\ [][(pc \in {"loop", "complete"} /\ run_state.status = "COMPLETED")
             => (/\ pc' \in {"loop", "complete", "returned"}
                 /\ workflow_calls' = <<>>
                 /\ evaluator_calls' = <<>>
                 /\ run_state'.status = "COMPLETED"
                 /\ run_state'.results = run_state.results
                 /\ run_state'.started_at = run_state.started_at
                 /\ run_state'.completed_at = run_state.completed_at
                 /\ run_state'.baseline_test_number = run_state.baseline_test_number
                 /\ run_state'.baseline_result = run_state.baseline_result
                 /\ run_state'.baseline_quality = run_state.baseline_quality
                 /\ run_state'.quality_improvement_pct =
                       run_state.quality_improvement_pct)]_vars

\* C16 witness: a call resumed from a COMPLETED run returned it without
\* executing a test.
C16_Witness ==
    /\ pc = "returned"
    /\ resumed # None
    /\ resumed[1] = PlannedNumbers(run_state)
    /\ run_state.status = "COMPLETED"
    /\ workflow_calls = <<>>

\* The message names the test number.
Embeds(message, test_number) ==
    \E i \in 1..Len(message) : message[i] = ToString(test_number)

\* C17: when run() has raised out of the execution of a test, the exception
\* the caller gets is an ExperimentError whose message embeds the number of
\* the failing test, and that message (up to surrounding whitespace) is the
\* error stored in the FAILED run.
C17_ErrorNamesTest ==
    pc = "raised" /\ failed_in = "run_single_test" =>
        /\ raised_exc # None
        /\ raised_exc[1].type = "ExperimentError"
        /\ Embeds(raised_exc[1].message, CurrentTest)
        /\ run_state.status = "FAILED"
        /\ run_state.error = Some(strip(raised_exc[1].message))

\* What C18 asks of the run that run() returned: the saved document is
\* accepted when loaded, and the loaded run equals expected.
RoundTrips(expected) ==
    pc = "returned" /\ run_state.status = "COMPLETED" =>
        /\ validate_state(save_run(run_state))
        /\ load_run(save_run(run_state)) = expected

Dominates(a, b, axis_x, axis_y) ==
    /\ axis_value(a, axis_x) <= axis_value(b, axis_x) + TOLERANCE
    /\ axis_value(a, axis_y) >= axis_value(b, axis_y) - TOLERANCE
    /\ \/ axis_value(a, axis_x) < axis_value(b, axis_x) - TOLERANCE
       \/ axis_value(a, axis_y) > axis_value(b, axis_y) + TOLERANCE

\* C19: in a computed frontier no point marked optimal is dominated by
\* another point of the set, and every point not marked optimal has a
\* dominated_by test number whose point dominates it.
C19_ParetoConsistent ==
    fn = "ParetoFrontier.compute" =>
        \A i \in 1..Len(value.points) :
            LET p == value.points[i]
                others == {value.points[j] : j \in 1..Len(value.points) \ {i}}
            IN  IF p.is_optimal
                THEN \A q \in others : ~Dominates(q, p, value.x_axis, value.y_axis)
                ELSE /\ p.dominated_by # None
                     /\ \E q \in others :
                           /\ q.test_number = p.dominated_by[1]
                           /\ Dominates(q, p, value.x_axis, value.y_axis)

\* What C20 asks of the value returned for effects of known variables: for
\* each variable the level with the higher mean utility, and on_tie when the
\* two means are equal.
SelectsHigher(on_tie) ==
    fn = "identify_optimal_config" /\ ~value.raised =>
        \A name \in DOMAIN args.main_effects.effects :
            LET effect == args.main_effects.effects[name]
            IN  value.optimal[name] =
                    IF effect.avg_level_2 > effect.avg_level_1 THEN <<name, 2>>
                    ELSE IF effect.avg_level_2 < effect.avg_level_1 THEN <<name, 1>>
                    ELSE <<name, on_tie>>

NotAllEqual(results) ==
    \E i, k \in 1..Len(results) : results[i].utility # results[k].utility
ContributionsSumTo100(effects) ==
    FracLeq(FracAbs(FracSub(total_contribution(effects), Frac(100, 1))), Frac(1, 2))
C21_ContributionsSumTo100 ==
    fn = "MainEffectsAnalyzer.compute" =>
        /\ NotAllEqual(args.results) =>
              /\ ~value.raised
              /\ ContributionsSumTo100(value.main_effects.effects)
        /\ (~value.raised /\ value.main_effects.total_ss = Frac(0, 1)) =>
              \A name \in DOMAIN value.main_effects.effects :
                  value.main_effects.effects[name].contribution_pct = Frac(0, 1)

\* C22: the L8 array is pairwise orthogonal: for every two distinct columns
\* and every combination of levels, the combination occurs in exactly 2 of
\* the 8 rows; so is every truncation generate_l8_array returns for 4 to 7
\* columns, and the truncation to 7 columns is the array itself.
Orthogonal(array) ==
    \A c1, c2 \in 1..Len(array[1]) :
        c1 # c2 =>
            \A l1, l2 \in {1, 2} :
                Cardinality({r \in 1..Len(array) :
                                array[r][c1] = l1 /\ array[r][c2] = l2}) = 2
C22_Orthogonal ==
    (fn = "generate_l8_array" /\ args.num_variables \in 4..7) =>
        /\ ~value.raised
        /\ Len(value.array) = 8
        /\ \A r \in 1..8 : Len(value.array[r]) = args.num_variables
        /\ Orthogonal(value.array)
        /\ args.num_variables = 7 => value.array = L8_ARRAY
C22_Witness ==
    /\ fn = "generate_l8_array"
    /\ args.num_variables = 7
    /\ ~value.raised
    /\ Len(value.array[1]) = 7

\* C23: generate_test_configs(config, replications=r) returns 8 * r
\* configurations numbered 1..8 * r in order; configuration k gives the j-th
\* variable its level_1 when the cell of the array at row ((k - 1) mod 8) + 1,
\* column j is 1 and its level_2 otherwise, and has a value for the variables
\* of the config and for nothing else.
C23_TestConfigsFollowArray ==
    (fn = "generate_test_configs" /\ Len(args.variables) \in 4..7) =>
        /\ ~value.raised
        /\ Len(value.test_configs) = 8 * args.replications
        /\ \A k \in 1..Len(value.test_configs) :
              LET test_config == value.test_configs[k]
              IN  /\ test_config.test_number = k
                  /\ DOMAIN test_config.config_values =
                        {args.variables[j].name : j \in 1..Len(args.variables)}
                  /\ \A j \in 1..Len(args.variables) :
                        test_config.config_values[args.variables[j].name] =
                            IF L8_ARRAY[((k - 1) % 8) + 1][j] = 1
                            THEN args.variables[j].level_1
                            ELSE args.variables[j].level_2
C23_Witness ==
    /\ fn = "generate_test_configs"
    /\ Len(args.variables) = 5
    /\ args.replications = 2
    /\ ~value.raised
    /\ Len(value.test_configs) = 16

\* C24: best_within_budget(budget) returns, among the Pareto-optimal points
\* whose x value is at most budget plus the tolerance, one with the largest y
\* value, and None when no optimal point qualifies; it never returns a point
\* that is not marked optimal.
Qualifying(frontier, budget) ==
    {point \in SeqToSet(frontier.points) :
        /\ point.is_optimal
        /\ axis_value(point, frontier.x_axis) <= budget + TOLERANCE}
C24_BestWithinBudget ==
    fn = "best_within_budget" =>
        LET qualifying == Qualifying(args.frontier, args.budget)
        IN  /\ qualifying = {} => value = None
            /\ qualifying # {} =>
                  /\ value # None
                  /\ value[1] \in qualifying
                  /\ value[1].is_optimal
                  /\ \A point \in qualifying :
                        axis_value(point, args.frontier.y_axis)
                            <= axis_value(value[1], args.frontier.y_axis)
C24_Witness ==
    /\ fn = "best_within_budget"
    /\ value # None
    /\ \E point \in SeqToSet(args.frontier.points) :
          /\ ~point.is_optimal
          /\ axis_value(point, args.frontier.x_axis) <= args.budget + TOLERANCE
          /\ axis_value(point, args.frontier.y_axis)
                > axis_value(value[1], args.frontier.y_axis)

\* C25: the request loop of the evaluator is bounded: it calls the LLM at most
\* max_retries times, a response ends the call without a further attempt,
\* EvaluationError is raised once max_retries attempts have failed, a sleep
\* comes only between two attempts and never after the last one, and every
\* call that started requesting ends.
Requests(log) == Cardinality({i \in 1..Len(log) : log[i] = "request"})
EvaluateEnded == evaluate_pc \in {"returned", "raised"}
RequestLoopBounded ==
    /\ Requests(events) <= evaluator.max_retries
    /\ \A i \in 1..Len(events) : events[i] = IF i % 2 = 1 THEN "request" ELSE "sleep"
    /\ evaluate_pc = "requesting" => events # <<>> /\ events[Len(events)] = "request"
    /\ evaluate_pc = "sleeping" => events # <<>> /\ events[Len(events)] = "sleep"
    /\ EvaluateEnded => (events = <<>> \/ events[Len(events)] = "request")
    /\ evaluation.response # None => EvaluateEnded
    /\ (EvaluateEnded /\ events # <<>> /\ evaluation.response = None) =>
          /\ evaluate_pc = "raised"
          /\ evaluation.outcome = Some([raised |-> TRUE, error |-> "EvaluationError"])
          /\ Requests(events) = evaluator.max_retries
C25_RequestLoopTerminates ==
    /\ []RequestLoopBounded
    /\ (evaluate_pc \in {"requesting", "sleeping"}) ~> EvaluateEnded
C25_Witness ==
    /\ evaluate_pc = "raised"
    /\ evaluator.max_retries = 3
    /\ evaluation.response = None
    /\ events = <<"request", "sleep", "request", "sleep", "request">>

\* C29: when evaluate is called with use_cache in effect and the cache holds
\* an entry for the resolved key, the LLM is not requested, the score is built
\* from the cached payload and the cache is not written; when there is no
\* entry the LLM is requested and, with record_cache in effect, the content of
\* the response is stored under that key; entries stay, so a later use_cache
\* call with the same key is served without a request.
HasKey == evaluator.cache_configured /\ evaluation.resolved_cache_key \in {Some(key) : key \in CacheKeys}
EntryAtCall == evaluation.cache_at_call[evaluation.resolved_cache_key[1]]
ServedFromCache ==
    /\ EvaluateEnded
    /\ events = <<>>
    /\ evaluation.response = None
    /\ evaluation.cache_hit
    /\ evaluation.content = EntryAtCall
    /\ ~evaluation.outcome[1].raised =>
          /\ evaluation.outcome[1].score = <<"score", EntryAtCall[1]>>
          /\ evaluation.outcome[1].cache_hit
    /\ ~evaluation.recorded_cache
    /\ cache = evaluation.cache_at_call
RequestedAndRecorded ==
    /\ events # <<>>
    /\ ~evaluation.cache_hit
    /\ (evaluation.response # None /\ evaluation.response[1] \in Contents) =>
          /\ evaluation.content = evaluation.response
          /\ IF evaluation.effective_record_cache
             THEN cache = [evaluation.cache_at_call EXCEPT
                              ![evaluation.resolved_cache_key[1]] = evaluation.response]
             ELSE cache = evaluation.cache_at_call
CacheUse ==
    (evaluations > 0 /\ HasKey) =>
        IF evaluation.effective_use_cache /\ EntryAtCall # None
        THEN ServedFromCache
        ELSE RequestedAndRecorded
C29_CacheServesAndRecords ==
    /\ []CacheUse
    /\ [][\A key \in CacheKeys : cache[key] # None => cache'[key] # None]_vars
C29_Witness ==
    /\ evaluations = 2
    /\ evaluate_pc = "returned"
    /\ evaluation.cache_hit
    /\ events = <<>>
    /\ evaluation.outcome[1].score = <<"score", "payload_2">>

\* C26: normalize_metrics scales a non-empty sequence into [0, 1] by min-max,
\* the minimum going to 0 and the maximum to 1, and keeps the order of the
\* values; when all the values are equal it returns zeros; in both cases it
\* reports the minimum and the maximum of the input; a method other than
\* min-max raises.
FracLess(a, b) == ~FracLeq(b, a)
C26_NormalizeMetrics ==
    fn = "normalize_metrics" =>
        /\ args.method # "min-max" => value.raised
        /\ (args.method = "min-max" /\ args.values # <<>>) =>
              LET values == args.values
                  normalized == value.normalized
                  lowest == SetMin(SeqToSet(values))
                  highest == SetMax(SeqToSet(values))
              IN  /\ ~value.raised
                  /\ Len(normalized) = Len(values)
                  /\ value.stats = [min |-> lowest, max |-> highest]
                  /\ lowest = highest =>
                        \A i \in 1..Len(values) : normalized[i] = Frac(0, 1)
                  /\ lowest # highest =>
                        \A i \in 1..Len(values) :
                            /\ FracLeq(Frac(0, 1), normalized[i])
                            /\ FracLeq(normalized[i], Frac(1, 1))
                            /\ values[i] = lowest => normalized[i] = Frac(0, 1)
                            /\ values[i] = highest => normalized[i] = Frac(1, 1)
                            /\ \A k \in 1..Len(values) :
                                  /\ values[i] < values[k] =>
                                        FracLess(normalized[i], normalized[k])
                                  /\ values[i] = values[k] => normalized[i] = normalized[k]
C26_Witness ==
    /\ fn = "normalize_metrics"
    /\ ~value.raised
    /\ args.values = <<1, 2, 0>>
    /\ value.normalized = <<Frac(1, 2), Frac(1, 1), Frac(0, 1)>>

\* C27: mark_failed raises and leaves the run unchanged when the error
\* message is empty once its leading and trailing whitespace is removed; when
\* it succeeds the stored error is the message without that whitespace and
\* the recorded results are unchanged.
WithoutOuterWhitespace(message) ==
    LET kept == {i \in 1..Len(message) : message[i] # " "}
    IN  IF kept = {} THEN <<>> ELSE SubSeq(message, SetMin(kept), SetMax(kept))
C27_MarkFailedTrims ==
    \A error \in Messages :
        LET out == mark_failed(run, error)
        IN  /\ WithoutOuterWhitespace(error) = <<>> =>
                  /\ out.raised
                  /\ out.run = run
                  /\ out.receiver = run
            /\ ~out.raised =>
                  /\ out.run.status = "FAILED"
                  /\ out.run.error = Some(WithoutOuterWhitespace(error))
                  /\ out.run.error # Some(<<>>)
                  /\ out.run.results = run.results
                  /\ out.receiver = run
C27_Witness ==
    /\ run.status = "RUNNING"
    /\ run.results # <<>>
    /\ mark_failed(run, <<" ">>).raised
    /\ ~mark_failed(run, <<" ", "x", " ">>).raised
    /\ mark_failed(run, <<" ", "x", " ">>).run.error = Some(<<"x">>)
    /\ mark_failed(run, <<" ", "x", " ">>).run.results = run.results

\* C28: constructing an ExperimentConfig fails for every variable count below
\* 4 or above 7 and for duplicate variable names, and succeeds for 4 to 7
\* variables of different names; a failed construction yields no config.
HasDuplicateNames(variables) ==
    \E i, j \in 1..Len(variables) : i # j /\ variables[i].name = variables[j].name
C28_VariableCountAndNames ==
    fn = "ExperimentConfig" =>
        /\ value.raised <=>
              \/ Len(args.variables) < 4
              \/ Len(args.variables) > 7
              \/ HasDuplicateNames(args.variables)
        /\ value.raised => value.config = None
        /\ ~value.raised => value.config = Some([variables |-> args.variables])
C28_Witness ==
    /\ fn = "ExperimentConfig"
    /\ Len(args.variables) = 5
    /\ HasDuplicateNames(args.variables)
    /\ value.raised

\* C30: when no planned test fails for ever, starting run() and calling it
\* again after each failure with resume_from set to the persisted snapshot
\* returns a COMPLETED run in the end, and over all the invocations each
\* planned test number is recorded exactly once: run_single_test produced one
\* result for it, and that is the one in the results.
RecordedExactlyOnce ==
    /\ Len(run_state.results) = Len(run_state.test_configurations)
    /\ TestNumbersOf(run_state.results) = PlannedNumbers(run_state)
    /\ \A n \in PlannedNumbers(run_state) :
          Cardinality({r \in produced : r.test_number = n}) = 1
    /\ produced = Unscored(run_state.results)
C30_ResumeCompletes ==
    /\ <>(pc = "returned" /\ run_state.status = "COMPLETED")
    /\ [](pc = "returned" => RecordedExactlyOnce)
    /\ [](pc = "returned" => persisted = Some(save_run(run_state)))
C30_Witness ==
    /\ pc = "returned"
    /\ run_state.status = "COMPLETED"
    /\ resumed # None
    /\ resumed[1] # {}
    /\ evaluator_calls # <<>>
    /\ RecordedExactlyOnce

\* C31: when run() has raised because the workflow resolver raised, the run is
\* FAILED with an error message and, with a persist path, the file holds that
\* FAILED run: the file is not left with a RUNNING run.
ResolverRaised == pc = "raised" /\ resolved /\ failed_in = ""
C31_ResolverFailureRecorded ==
    ResolverRaised =>
        /\ run_state.status = "FAILED"
        /\ run_state.error # None
        /\ persistence_path # None =>
              /\ persisted # None
              /\ persisted[1].status = "FAILED"
              /\ persisted[1].error # None

\* C32: run() never tries a failed test again: within one call the workflow is
\* invoked at most once for each test, a test that raises is the last one the
\* call executes, and from the except clause the call only raises, with no
\* further call of the workflow or the evaluator.
TestRaised == pc \in {"except", "raised"} /\ failed_in = "run_single_test"
NoRetry ==
    /\ NoRepeat(workflow_calls)
    /\ NoRepeat(evaluator_calls)
    /\ TestRaised =>
          /\ \A i \in 1..Len(workflow_calls) : workflow_calls[i] <= CurrentTest
          /\ \A i \in 1..Len(evaluator_calls) : evaluator_calls[i] <= CurrentTest
StopsAfterFailure ==
    pc = "except" =>
        /\ pc' = "raised"
        /\ UNCHANGED <<workflow_calls, evaluator_calls, position>>
C32_NoRetryInRun == []NoRetry /\ [][StopsAfterFailure]_vars
C32_Witness ==
    /\ pc = "raised"
    /\ failed_in = "run_single_test"
    /\ workflow_calls = <<1>>
    /\ position < Len(run_state.test_configurations)
    /\ 2 \in PlannedNumbers(run_state) \ TestNumbersOf(run_state.results)

\* C33: run() returns only a COMPLETED run whose results hold exactly one
\* result for every planned test number; a call that ends with a run that is
\* not COMPLETED, or with a planned test missing, has raised an exception.
OneResultPerPlannedTest(r) ==
    /\ Len(r.results) = Len(r.test_configurations)
    /\ NoRepeat(r.test_configurations)
    /\ \A n \in PlannedNumbers(r) :
          Cardinality({i \in 1..Len(r.results) : r.results[i].test_number = n}) = 1
C33_ReturnsOnlyCompleted ==
    /\ pc = "returned" =>
          /\ run_state.status = "COMPLETED"
          /\ OneResultPerPlannedTest(run_state)
    /\ (pc \in {"returned", "raised"}
        /\ ~(run_state.status = "COMPLETED" /\ OneResultPerPlannedTest(run_state))) =>
          /\ pc = "raised"
          /\ raised_exc # None
C33_Witness ==
    /\ pc = "returned"
    /\ resumed = None
    /\ workflow_calls = <<1, 2>>
    /\ run_state.status = "COMPLETED"
    /\ OneResultPerPlannedTest(run_state)

\* C34: the progress callback is called first, before any test runs, with the
\* number of results the run already holds and the total; then once after
\* each result recorded in the call, with the count one higher each time; the
\* count never decreases, and when run() has returned the last call reported
\* (total, total).
AlreadyRecorded == IF resumed = None THEN 0 ELSE Cardinality(resumed[1])
ProgressReported ==
    LET total == Len(run_state.test_configurations)
    IN  /\ resolved <=> progress # <<>>
        /\ workflow_calls # <<>> => progress # <<>>
        /\ progress # <<>> =>
              /\ progress[1] = <<AlreadyRecorded, total>>
              /\ Len(progress) = 1 + Len(run_state.results) - AlreadyRecorded
              /\ \A i \in 2..Len(progress) :
                    progress[i] = <<progress[i - 1][1] + 1, total>>
              /\ progress[Len(progress)][1] = Len(run_state.results)
        /\ pc = "returned" => progress[Len(progress)] = <<total, total>>
ProgressFollowsRecord ==
    progress' # progress =>
        \/ pc \in {"idle", "returned", "raised"} /\ Len(progress') <= 1
        \/ /\ pc = "record"
           /\ Len(run_state'.results) = Len(run_state.results) + 1
           /\ progress' = Append(progress, <<Len(run_state'.results),
                                             Len(run_state.test_configurations)>>)
C34_ProgressCallback == []ProgressReported /\ [][ProgressFollowsRecord]_vars
C34_Witness ==
    /\ pc = "returned"
    /\ resumed # None
    /\ progress = <<<<1, 2>>, <<2, 2>>>>

\* C35: over a call of run() and the calls that resume it from the file, the
\* test numbers recorded in the file only grow: no save drops a result an
\* earlier save held; and the file never lacks more than one of the results
\* run_state holds, nor holds one run_state does not.
PersistedNumbers ==
    IF persisted = None THEN {} ELSE TestNumbersOf(persisted[1].results)
PersistedGrows == PersistedNumbers \subseteq PersistedNumbers'
PersistedCloseBehind ==
    /\ Cardinality(TestNumbersOf(run_state.results) \ PersistedNumbers) <= 1
    /\ pc # "idle" => PersistedNumbers \subseteq TestNumbersOf(run_state.results)
C35_PersistedOnlyGrows == [][PersistedGrows]_vars /\ []PersistedCloseBehind
C35_Witness ==
    /\ pc = "loop"
    /\ resumed # None
    /\ resumed[1] = {1}
    /\ workflow_calls = <<2>>
    /\ PersistedNumbers = {1, 2}
    /\ persisted[1].status = "RUNNING"

\* C36: after any sequence of successful record_result calls, in whatever
\* order the results were passed, the results list holds pairwise distinct
\* test numbers in increasing order.
ResultNumbers(r) == [i \in 1..Len(r.results) |-> r.results[i].test_number]
C36_ResultsSortedDistinct ==
    /\ \A i, j \in 1..Len(run.results) :
          i # j => run.results[i].test_number # run.results[j].test_number
    /\ \A i \in 1..(Len(run.results) - 1) :
          run.results[i].test_number < run.results[i + 1].test_number
    /\ TestNumbersOf(run.results) = {r.test_number : r \in recorded}
    /\ Len(run.results) = Cardinality(recorded)
C36_Witness ==
    /\ out_of_order
    /\ call = "record_result"
    /\ ResultNumbers(run) = <<2, 3>>

\* C37: record_result accepts only results of planned tests: the recorded test
\* numbers are always among the planned ones, a result of another number is
\* refused with the run left as it was, and a COMPLETED run holds exactly one
\* result for each planned test.
C37_RecordsOnlyPlanned ==
    /\ TestNumbersOf(run.results) \subseteq PlannedNumbers(run)
    /\ \A result \in TestResults :
          result.test_number \notin PlannedNumbers(run) =>
              /\ record_result(run, result).raised
              /\ record_result(run, result).run = run
    /\ run.status = "COMPLETED" => OneResultPerPlannedTest(run)

\* C38: quality_improvement_pct is None for as long as the baseline test (the
\* lowest planned test number) has no result, and wherever it is defined it is
\* not negative.
BaselineRecorded(r) == r.baseline_test_number \in TestNumbersOf(r.results)
C38_ImprovementNeverNegative ==
    /\ run.baseline_test_number = SeqMin(run.test_configurations)
    /\ ~BaselineRecorded(run) => run.quality_improvement_pct = None
    /\ run.quality_improvement_pct # None =>
          /\ run.quality_improvement_pct[1][2] > 0
          /\ run.quality_improvement_pct[1][1] >= 0
C38_Witness ==
    /\ BaselineRecorded(run)
    /\ Len(run.results) = 2
    /\ run.quality_improvement_pct = Some(Frac(0, 1))
    /\ \E i \in 1..2 : FracLess(overall_score(run.results[i]), run.baseline_quality[1])

\* C39: a response is written to the cache only by an evaluate call that
\* succeeds: when a call has raised EvaluationError the cache is as it was
\* when the call began.
C39_CacheUnchangedOnError ==
    evaluate_pc = "raised" => cache = evaluation.cache_at_call

====
